---- MODULE Spec2Model ----
(***************************************************************************)
(* A model of the LIMINAL coordination core (liminal-v1/src-tauri/src):    *)
(*   - router.rs     the priority router: five tier queues, one dispatcher *)
(*                   task, aging, per-sender token buckets;                *)
(*   - ledger/mod.rs the append-only hash-chained ledger;                  *)
(*   - territory.rs  the lease registry;                                   *)
(*   - consensus.rs  the quorum broker.                                    *)
(* Each subsystem has its own specification (SpecRouter, SpecLedger,       *)
(* SpecTerritory, SpecConsensus); the variables of the other subsystems    *)
(* stay unchanged.                                                         *)
(***************************************************************************)
EXTENDS Integers, Sequences, FiniteSets, TLC

VARIABLES
    \* ---- router.rs ----
    rcfg,        \* DispatcherConfig of this router (fixed at construction)
    queues,      \* queues[p]: the VecDeque of tier p (index 1 is the front)
    buckets,     \* token_buckets: sender -> TokenBucket, or None before first use
    started,     \* UnifiedMessageRouter.dispatcher is Some(handle)
    dpc,         \* position of the dispatcher task inside run_dispatcher
    apri,        \* apply_aging: the tier being scanned (`priority`)
    aidx,        \* apply_aging: `index` into that tier (0-based)
    spri,        \* run_dispatcher: `priority` of the for loop
    hand,        \* the message the dispatcher task holds outside every queue
    delivered,   \* delivered[id]: how many RouterDelivery values carried message id
    lastDelivery,\* the RouterDelivery sent last (None before the first)
    nextMsg,     \* number of messages accepted by route_message so far
    passStart,   \* nextMsg when the current for loop of run_dispatcher began
    spawned,     \* how many dispatcher tasks tokio::spawn has started
    dispatcher_lock,  \* the caller holding the `dispatcher` mutex, or "free"
    rcaller,     \* rcaller[c]: where caller c is inside route_message
    \* ---- ledger/mod.rs ----
    lcfg,        \* LedgerRuntimeConfig of this writer
    wstate,      \* WriterState; `file` is the segment state.file writes to
    lclock,      \* HybridLogicalClock
    lfiles,      \* the epoch directory: segment index -> lines of that file
    lbuf,        \* lines held in state.file's BufWriter, not yet in the file
    lnow,        \* SystemTime::now()
    lret,        \* the last append: its call number and whether it returned Ok
    lok,         \* the events whose append returned Ok, in the order appended
    lwriters,    \* how many times LedgerWriter::new has opened this epoch
    \* ---- territory.rs, consensus.rs ----
    tpolicy,     \* TerritoryPolicy of this manager
    tnow,        \* Instant::now()
    leases,      \* TerritoryState.leases: resource -> Lease, or None
    tqueues,     \* TerritoryState.queues: resource -> Vec<LeaseQueueEntry>
    lease_id_counter,    \* LEASE_ID_COUNTER
    request_id_counter,  \* REQUEST_ID_COUNTER
    pending,     \* pending[agent]: what the agent's call still does after the lock
    quorums,     \* the QuorumVectors committed by record_quorum, in order
    tevents,     \* the TerritoryEvents emitted, in order
    tcall,       \* the last call of the manager's API and what it returned
    lease_metrics,  \* metrics.rs LeaseState, with the grants of PerformanceState
    heat_map,    \* the manager's HeatMap
    heat_summary,  \* metrics.rs: the HeatSummary last given to update_heat_summary
    \* ---- consensus.rs ----
    default_threshold,  \* ConsensusBroker.default_threshold, in hundredths
    inflight,    \* inflight[b]: the caller holding broker b's mutex, or "free"
    cpc,         \* cpc[k]: where caller k is inside record_quorum
    cargs,       \* cargs[k]: the call caller k is in (broker, votes, ...)
    clog,        \* the consensus events the shared ledger has appended, in order
    cerrors,     \* metrics: ledger errors counted by append_consensus_event
    cdone,       \* the calls of record_quorum that have returned
    cnext,       \* number of calls of record_quorum started so far
    \* ---- ledger/mod.rs: a HybridLogicalClock on its own ----
    hclock,      \* the HybridLogicalClock
    hlast,       \* the LogicalClock its last tick returned (None before)
    hprev,       \* the LogicalClock the tick before that returned
    hn,          \* number of ticks taken
    \* ---- metrics.rs ----
    append_failures  \* LedgerMetrics.append_failures

rvars == <<rcfg, queues, buckets, started, dpc, apri, aidx, spri, hand,
           delivered, lastDelivery, nextMsg, passStart, spawned,
           dispatcher_lock, rcaller>>
lvars == <<lcfg, wstate, lclock, lfiles, lbuf, lnow, lret, lok, lwriters>>
tvars == <<tpolicy, tnow, leases, tqueues, lease_id_counter, request_id_counter,
           pending, quorums, tevents, tcall, lease_metrics, heat_map,
           heat_summary>>
cvars == <<default_threshold, inflight, cpc, cargs, clog, cerrors, cdone, cnext>>
hvars == <<hclock, hlast, hprev, hn>>
mvars == <<append_failures>>
vars == <<rvars, lvars, tvars, cvars, hvars, mvars>>

\* What an action of one subsystem leaves alone: the other subsystems.
notRouter == <<lvars, tvars, cvars, hvars, mvars>>
notLedger == <<rvars, tvars, cvars, hvars, mvars>>
notTerritory == <<rvars, lvars, cvars, hvars, mvars>>
notConsensus == <<rvars, lvars, tvars, hvars, mvars>>
notClock == <<rvars, lvars, tvars, cvars, mvars>>

None == [none |-> TRUE]

\* Option<T> of a number: Nothing or Some(x)
Nothing == <<>>
Some(x) == <<x>>

Min(a, b) == IF a <= b THEN a ELSE b
Max(a, b) == IF a >= b THEN a ELSE b

(***************************************************************************)
(* Bounds of the model.                                                    *)
(***************************************************************************)
MaxMsgs == 2        \* messages accepted by route_message in one run
MaxRetry == 1       \* retry_count is a u32; the model saturates it here

(***************************************************************************)
(* router.rs: Priority                                                     *)
(***************************************************************************)
PRIORITY_LEVELS == 5
Info == 0
Coordinate == 1
Blocking == 2
Critical == 3
DirectorOverride == 4
Priorities == 0 .. (PRIORITY_LEVELS - 1)

token_cost(p) ==
    CASE p = Info -> 1
      [] p = Coordinate -> 5
      [] p = Blocking -> 20
      [] p = Critical -> 100
      [] OTHER -> 0

from_index(i) == IF i \in 0 .. 3 THEN i ELSE DirectorOverride

\* boost without the cap at Critical
boost_uncapped(p, levels) == from_index(p + levels)

boost(p, levels) == from_index(Min(p + levels, Critical))

Senders == {"s1", "s2"}

\* The tasks that call route_message on the one router.
RouteCallers == {"c1", "c2", "c3"}

(***************************************************************************)
(* DispatcherConfig.  Durations are in clock ticks, token amounts in whole *)
(* tokens.  The configurations are the default one and those of the        *)
(* integration tests, rescaled to ticks.                                   *)
(***************************************************************************)
RouterConfigs ==
    { [aging_threshold |-> 1, max_aging_boosts |-> 2, token_capacity |-> 200,
       token_refill_rate |-> 60, initial_tokens |-> 200],
      [aging_threshold |-> 1, max_aging_boosts |-> 1, token_capacity |-> 5,
       token_refill_rate |-> 5, initial_tokens |-> 0],
      [aging_threshold |-> 1, max_aging_boosts |-> 2, token_capacity |-> 2,
       token_refill_rate |-> 2, initial_tokens |-> 2],
      [aging_threshold |-> 1, max_aging_boosts |-> 0, token_capacity |-> 1,
       token_refill_rate |-> 0, initial_tokens |-> 1] }

\* RouterConfig as a caller or the configuration file gives it: an absent
\* option is Nothing.  Durations and boosts are left at their defaults.
RawRouterConfigs ==
    { c \in [token_bucket_capacity : {Nothing, Some(2)},
             token_bucket_refill_rate : {Nothing, Some(1)},
             token_bucket_initial : {Nothing, Some(0 - 1), Some(3)}] :
        (c.token_bucket_capacity = Nothing) = (c.token_bucket_refill_rate = Nothing) }

\* DispatcherConfig::default, rescaled to ticks
DispatcherConfigDefault ==
    [aging_threshold |-> 1, max_aging_boosts |-> 2, token_capacity |-> 200,
     token_refill_rate |-> 60, initial_tokens |-> 200]

\* DispatcherConfig::from_router_config
from_router_config(cfg) ==
    LET capacity == IF cfg.token_bucket_capacity # Nothing
                    THEN cfg.token_bucket_capacity[1]
                    ELSE DispatcherConfigDefault.token_capacity
        refill == IF cfg.token_bucket_refill_rate # Nothing
                  THEN cfg.token_bucket_refill_rate[1]
                  ELSE DispatcherConfigDefault.token_refill_rate
        initial == IF cfg.token_bucket_initial # Nothing
                   THEN cfg.token_bucket_initial[1]
                   ELSE IF cfg.token_bucket_capacity # Nothing
                        THEN capacity
                        ELSE DispatcherConfigDefault.initial_tokens
    IN  [DispatcherConfigDefault EXCEPT
           !.token_capacity = capacity,
           !.token_refill_rate = refill,
           !.initial_tokens = IF initial > capacity THEN capacity ELSE initial]

\* Ticks after which a bucket that is not consumed from is full: longer
\* elapsed times refill to the same value, so `elapsed` saturates here.
ElapsedCap(cfg) ==
    IF cfg.token_refill_rate = 0 THEN 1
    ELSE (cfg.token_capacity + cfg.token_refill_rate - 1) \div cfg.token_refill_rate

(***************************************************************************)
(* QueuedMessage.  `age` is enqueued_at.elapsed() in ticks, saturated at   *)
(* aging_threshold (the only comparison made with it); `id` is the order   *)
(* in which route_message pushed the messages.                             *)
(***************************************************************************)
NewQueued(id, sender, priority) ==
    [id |-> id, sender |-> sender, priority |-> priority,
     effective_priority |-> priority, aging_boosts |-> 0, retry_count |-> 0,
     age |-> 0]

\* eligibility by age alone
eligible_by_age(m, threshold, max_boosts) == m.age >= threshold

\* QueuedMessage::eligible_for_boost
eligible_for_boost(m, threshold, max_boosts) ==
    m.aging_boosts < max_boosts /\ m.age >= threshold

\* an attempt that is not counted
record_attempt_uncounted(m) == m

\* QueuedMessage::record_attempt
record_attempt(m) == [m EXCEPT !.retry_count = Min(m.retry_count + 1, MaxRetry)]

(***************************************************************************)
(* TokenBucket.  `elapsed` is last_refill.elapsed() in ticks.              *)
(***************************************************************************)
NewBucket(capacity, refill_rate, initial) ==
    [capacity |-> capacity, tokens |-> Min(initial, capacity),
     refill_rate |-> refill_rate, elapsed |-> 0]

refill(b) ==
    IF b.elapsed > 0
    THEN [b EXCEPT !.tokens = Min(b.tokens + b.elapsed * b.refill_rate, b.capacity),
                   !.elapsed = 0]
    ELSE b

\* <<dispatched, bucket after the call>>
try_consume(b, cost) ==
    LET r == refill(b) IN
    IF r.tokens >= cost
    THEN <<TRUE, [r EXCEPT !.tokens = r.tokens - cost]>>
    ELSE <<FALSE, r>>

\* buckets.entry(sender).or_insert_with(TokenBucket::new(config...))
BucketOf(s) ==
    IF buckets[s] = None
    THEN NewBucket(rcfg.token_capacity, rcfg.token_refill_rate, rcfg.initial_tokens)
    ELSE buckets[s]

(***************************************************************************)
(* Sequence helpers (VecDeque operations).                                 *)
(***************************************************************************)
RemoveAt(s, i) == SubSeq(s, 1, i - 1) \o SubSeq(s, i + 1, Len(s))

push_back(q, m) == Append(q, m)

\* Indices (1-based) of the entries of q that apply_aging boosts when its
\* scan stands at 0-based index `from`.
EligibleFrom(q, from) ==
    { i \in (from + 1) .. Len(q) :
        eligible_for_boost(q[i], rcfg.aging_threshold, rcfg.max_aging_boosts) }

SetMin(S) == CHOOSE x \in S : \A y \in S : x <= y

\* The number of entries of q that carry message id.
Occurrences(q, id) == Cardinality({ i \in 1 .. Len(q) : q[i].id = id })

(***************************************************************************)
(* Router: initial state and actions.                                      *)
(***************************************************************************)
\* The state after construction with one of the configurations `cfgs`.
RouterStart(cfgs) ==
    /\ rcfg \in cfgs
    /\ queues = [p \in Priorities |-> <<>>]
    /\ buckets = [s \in Senders |-> None]
    /\ started = FALSE
    /\ dpc = "aging"
    /\ apri = 0
    /\ aidx = 0
    /\ spri = PRIORITY_LEVELS - 1
    /\ hand = None
    /\ delivered = [i \in 1 .. MaxMsgs |-> 0]
    /\ lastDelivery = None
    /\ nextMsg = 0
    /\ passStart = 0
    /\ spawned = 0
    /\ dispatcher_lock = "free"
    /\ rcaller = [c \in RouteCallers |-> "idle"]

RouterInit == RouterStart(RouterConfigs)

\* route_message: ensure_dispatcher_started, then push_back on the tier of
\* the declared priority.
route_message(sender, priority) ==
    /\ nextMsg < MaxMsgs
    /\ started' = TRUE
    /\ spawned' = IF started THEN spawned ELSE spawned + 1
    /\ nextMsg' = nextMsg + 1
    /\ queues' = [queues EXCEPT
                    ![priority] = push_back(@, NewQueued(nextMsg + 1, sender, priority))]
    /\ UNCHANGED <<dispatcher_lock, rcaller>>
    /\ UNCHANGED <<rcfg, buckets, dpc, apri, aidx, spri, hand, delivered,
                   lastDelivery, passStart>>
    /\ UNCHANGED notRouter

\* The clock advances by one tick: every enqueued_at.elapsed() and every
\* last_refill.elapsed() grows by one (up to its saturation point).
AgeMsg(m) == [m EXCEPT !.age = Min(m.age + 1, rcfg.aging_threshold)]

RouterTick ==
    /\ queues' = [p \in Priorities |->
                    [i \in 1 .. Len(queues[p]) |-> AgeMsg(queues[p][i])]]
    /\ hand' = IF hand = None THEN None ELSE AgeMsg(hand)
    /\ buckets' = [s \in Senders |->
                    IF buckets[s] = None THEN None
                    ELSE [buckets[s] EXCEPT
                            !.elapsed = Min(@ + 1, ElapsedCap(rcfg))]]
    /\ <<queues', hand', buckets'>> # <<queues, hand, buckets>>
    /\ UNCHANGED <<spawned, dispatcher_lock, rcaller>>
    /\ UNCHANGED <<rcfg, started, dpc, apri, aidx, spri, delivered,
                   lastDelivery, nextMsg, passStart>>
    /\ UNCHANGED notRouter

\* The entry apply_aging removed from its tier, boosted.
Boosted(m) ==
    [m EXCEPT !.effective_priority = boost(m.effective_priority, 1),
              !.aging_boosts = m.aging_boosts + 1]

\* apply_aging, one hold of the write lock of tier `apri`: scan from `aidx`
\* to the first entry eligible for a boost, remove and boost it (the lock is
\* then dropped); with no such entry the tier is finished, and after tier
\* PRIORITY_LEVELS - 2 the for loop of run_dispatcher starts at the top.
AgingScan ==
    /\ started
    /\ dpc = "aging"
    /\ LET el == EligibleFrom(queues[apri], aidx) IN
       IF el = {}
       THEN /\ IF apri + 1 < PRIORITY_LEVELS - 1
               THEN /\ apri' = apri + 1
                    /\ UNCHANGED <<dpc, spri, passStart>>
               ELSE /\ apri' = 0
                    /\ dpc' = "scan"
                    /\ spri' = PRIORITY_LEVELS - 1
                    /\ passStart' = nextMsg
            /\ aidx' = 0
            /\ UNCHANGED <<queues, hand>>
       ELSE LET i == SetMin(el) IN
            /\ queues' = [queues EXCEPT ![apri] = RemoveAt(@, i)]
            /\ hand' = Boosted(queues[apri][i])
            /\ aidx' = i - 1
            /\ dpc' = "aging_push"
            /\ UNCHANGED <<apri, spri, passStart>>
    /\ UNCHANGED <<spawned, dispatcher_lock, rcaller>>
    /\ UNCHANGED <<rcfg, buckets, started, delivered, lastDelivery, nextMsg>>
    /\ UNCHANGED notRouter

\* apply_aging: the boosted entry is appended to the tier it now belongs to,
\* and the scan of tier `apri` continues at the same index.
AgingPush ==
    /\ dpc = "aging_push"
    /\ queues' = [queues EXCEPT ![hand.effective_priority] = push_back(@, hand)]
    /\ hand' = None
    /\ dpc' = "aging"
    /\ UNCHANGED <<spawned, dispatcher_lock, rcaller>>
    /\ UNCHANGED <<rcfg, buckets, started, apri, aidx, spri, delivered,
                   lastDelivery, nextMsg, passStart>>
    /\ UNCHANGED notRouter

\* The for loop of run_dispatcher after tier spri gave nothing to deliver:
\* the next lower tier, or the idle wait after tier 0.
NextTier ==
    IF spri = 0
    THEN /\ dpc' = "idle"
         /\ spri' = PRIORITY_LEVELS - 1
    ELSE /\ dpc' = "scan"
         /\ spri' = spri - 1

\* run_dispatcher: queues[priority].pop_front()
DispTake ==
    /\ dpc = "scan"
    /\ IF queues[spri] = <<>>
       THEN /\ NextTier
            /\ UNCHANGED <<queues, hand>>
       ELSE /\ hand' = Head(queues[spri])
            /\ queues' = [queues EXCEPT ![spri] = Tail(@)]
            /\ dpc' = "decide"
            /\ UNCHANGED spri
    /\ UNCHANGED <<spawned, dispatcher_lock, rcaller>>
    /\ UNCHANGED <<rcfg, buckets, started, apri, aidx, delivered, lastDelivery,
                   nextMsg, passStart>>
    /\ UNCHANGED notRouter

Delivery(m) ==
    [id |-> m.id, sender |-> m.sender, priority |-> m.priority,
     effective_priority |-> m.effective_priority,
     aging_boosts |-> m.aging_boosts, retry_count |-> m.retry_count]

\* The rate-limit requeue: record_attempt, then push_back on the tier of the
\* effective priority.
RequeueDropped(qs, m) == qs

Requeue(qs, m) ==
    [qs EXCEPT ![m.effective_priority] = push_back(@, record_attempt(m))]

\* run_dispatcher: try_consume on the sender's bucket, then either the
\* rate-limit requeue (`continue`) or the delivery (`break`).
DispDecideBody ==
    /\ dpc = "decide"
    /\ LET r == try_consume(BucketOf(hand.sender), token_cost(hand.effective_priority))
       IN /\ buckets' = [buckets EXCEPT ![hand.sender] = r[2]]
          /\ IF r[1]
             THEN /\ delivered' = [delivered EXCEPT ![hand.id] = @ + 1]
                  /\ lastDelivery' = Delivery(hand)
                  /\ dpc' = "aging"
                  /\ spri' = PRIORITY_LEVELS - 1
                  /\ UNCHANGED queues
             ELSE /\ queues' = Requeue(queues, hand)
                  /\ NextTier
                  /\ UNCHANGED <<delivered, lastDelivery>>
    /\ hand' = None
    /\ UNCHANGED <<spawned, dispatcher_lock, rcaller>>
    /\ UNCHANGED <<rcfg, started, apri, aidx, nextMsg, passStart>>

\* The router built without a ledger.
DispDecide ==
    /\ DispDecideBody
    /\ UNCHANGED notRouter

\* Nothing was dispatched: notify.notified(), or the idle_backoff timer,
\* ends the wait and the loop starts over.
DispIdle ==
    /\ dpc = "idle"
    /\ dpc' = "aging"
    /\ UNCHANGED <<spawned, dispatcher_lock, rcaller>>
    /\ UNCHANGED <<rcfg, queues, buckets, started, apri, aidx, spri, hand,
                   delivered, lastDelivery, nextMsg, passStart>>
    /\ UNCHANGED notRouter

Dispatcher == AgingScan \/ AgingPush \/ DispTake \/ DispDecide \/ DispIdle

RouterNext ==
    \/ \E s \in Senders, p \in Priorities : route_message(s, p)
    \/ RouterTick
    \/ AgingScan
    \/ AgingPush
    \/ DispTake
    \/ DispDecide
    \/ DispIdle

(***************************************************************************)
(* ledger/mod.rs: the append-only, hash-chained ledger.                     *)
(*                                                                         *)
(* Sizes are in line units (every serialized envelope plus its newline     *)
(* counts LineBytes), wall time in ticks.  The blake3 hash is modelled as  *)
(* the pair of its two inputs, which makes it collision free.              *)
(***************************************************************************)
MaxAppends == 4     \* calls of LedgerInner::append in one run
MaxWall == 3        \* SystemTime::now() ranges over 0 .. MaxWall

LineBytes == 1

LedgerEvents == {"lease", "router"}

\* LedgerRuntimeConfig; segment_duration is at least one second (line 493).
LedgerConfigs ==
    { [segment_size_bytes |-> 2, segment_duration |-> Max(2, 1)],
      [segment_size_bytes |-> 3, segment_duration |-> Max(0, 1)] }

\* What the file system can do to one append.
IoOutcomes == {"ok", "open_fails", "write_fails", "flush_fails"}

\* Hashes are hex strings in the code; here a hash is the tuple of what was
\* hashed, and the literal "0" that starts a chain is the one-element tuple.
H(prev, bytes) == <<prev, bytes>>
Genesis == <<"0">>

\* u32::MAX, the largest value of HybridLogicalClock.counter; the model
\* keeps the counter's top where a run can reach it.
CounterMax == 4

\* HybridLogicalClock::tick (counter.saturating_add(1))
tick(c, now) ==
    IF now > c.last_wall
    THEN [last_wall |-> now, counter |-> 0]
    ELSE [last_wall |-> c.last_wall, counter |-> Min(c.counter + 1, CounterMax)]

\* EventEnvelope::without_hash: the serialized envelope minus "hashChain".
without_hash(env) ==
    [k \in (DOMAIN env) \ {"hash_chain"} |-> env[k]]

\* WriterState::new
NewWriterState(now) ==
    [file |-> 0, sequence |-> 0, prev_hash |-> Genesis, segment_index |-> 0,
     bytes_written |-> 0, segment_opened_at |-> now]

\* WriterState::should_rotate; a clock that went backwards counts as zero
\* elapsed time (unwrap_or_default).
should_rotate(st, now, cfg) ==
    LET size_exceeded == st.bytes_written >= cfg.segment_size_bytes
        time_exceeded == Max(now - st.segment_opened_at, 0) >= cfg.segment_duration
    IN  size_exceeded \/ time_exceeded

\* The writer's fields the contract speaks of (everything but the file handle).
WriterFields(st) ==
    [sequence |-> st.sequence, prev_hash |-> st.prev_hash,
     segment_index |-> st.segment_index, bytes_written |-> st.bytes_written,
     segment_opened_at |-> st.segment_opened_at]

\* open_segment's file name, "segment_{index:04}.log", as its digits.
RECURSIVE Digits(_)
Digits(n) == IF n < 10 THEN <<n>> ELSE Append(Digits(n \div 10), n % 10)

RECURSIVE PadLeft(_, _)
PadLeft(d, width) == IF Len(d) >= width THEN d ELSE PadLeft(<<0>> \o d, width)

SegmentName(index) == PadLeft(Digits(index), 4)

\* Ordering of paths in `segments.sort()`: lexicographic on the name.
RECURSIVE NameLess(_, _)
NameLess(a, b) ==
    IF a = <<>> THEN b # <<>>
    ELSE IF b = <<>> THEN FALSE
    ELSE IF Head(a) # Head(b) THEN Head(a) < Head(b)
    ELSE NameLess(Tail(a), Tail(b))

\* collect_segments + sort: the indices of the segment files, in the order
\* of their names.
RECURSIVE SortedSegments(_)
SortedSegments(S) ==
    IF S = {} THEN <<>>
    ELSE LET first == CHOOSE i \in S :
                        \A j \in S \ {i} : NameLess(SegmentName(i), SegmentName(j))
         IN  <<first>> \o SortedSegments(S \ {first})

RECURSIVE ConcatSegments(_, _)
ConcatSegments(files, order) ==
    IF order = <<>> THEN <<>>
    ELSE files[Head(order)] \o ConcatSegments(files, Tail(order))

\* LedgerReader::read_epoch on a directory holding `files`.
read_epoch(files) == ConcatSegments(files, SortedSegments(DOMAIN files))

\* LedgerReader::verify_epoch, from the predecessor hash `prev` onwards.
RECURSIVE VerifyFrom(_, _)
VerifyFrom(events, prev) ==
    IF events = <<>> THEN TRUE
    ELSE LET event == Head(events)
             expected == H(prev, without_hash(event))
         IN  IF expected # event.hash_chain THEN FALSE
             ELSE VerifyFrom(Tail(events), event.hash_chain)

verify_epoch(files) == VerifyFrom(read_epoch(files), Genesis)

\* LedgerWriter::new at wall time 1: segment 0 is created empty.
LedgerInit ==
    /\ lcfg \in LedgerConfigs
    /\ lnow = 1
    /\ wstate = NewWriterState(1)
    /\ lclock = [last_wall |-> 0, counter |-> 0]
    /\ lfiles = (0 :> <<>>)
    /\ lbuf = <<>>
    /\ lret = [call |-> 0, ok |-> TRUE]
    /\ lok = <<>>
    /\ lwriters = 1

\* LedgerInner::append, the whole body under the `state` and `clock`
\* mutexes.  `io` is what the file system does to this call; `dropOk` is
\* whether the lines still buffered in the old BufWriter reach its file when
\* a rotation drops it.
append_body(event, io, dropOk) ==
    /\ lret.call < MaxAppends
    /\ LET now == lnow
           rotate == should_rotate(wstate, now, lcfg)
           rotated == IF rotate
                      THEN [wstate EXCEPT !.segment_index = @ + 1,
                                          !.bytes_written = 0,
                                          !.segment_opened_at = now]
                      ELSE wstate
       IN  /\ (io = "open_fails") => rotate
           /\ (~rotate \/ lbuf = <<>> \/ io = "open_fails") => dropOk
           /\ IF io = "open_fails"
              THEN \* `open_segment(..)?` returns early; the three fields
                   \* above stay as assigned and state.file is the old file
                   /\ wstate' = rotated
                   /\ lret' = [call |-> lret.call + 1, ok |-> FALSE]
                   /\ UNCHANGED <<lclock, lfiles, lbuf>>
              ELSE LET opened == IF rotate
                                 THEN [rotated EXCEPT !.file = rotated.segment_index]
                                 ELSE rotated
                       flushedOld == IF rotate /\ dropOk
                                     THEN [lfiles EXCEPT ![wstate.file] = @ \o lbuf]
                                     ELSE lfiles
                       files1 == IF rotate
                                 THEN (opened.file :> <<>>) @@ flushedOld
                                 ELSE lfiles
                       buf1 == IF rotate THEN <<>> ELSE lbuf
                       logical_clock == tick(lclock, now)
                       sequence == opened.sequence + 1
                       unhashed == [sequence |-> sequence,
                                    logical_clock |-> logical_clock,
                                    payload_digest |-> H(<<>>, event),
                                    hash_chain |-> <<>>,
                                    event |-> event]
                       hash_chain == H(opened.prev_hash, without_hash(unhashed))
                       envelope == [unhashed EXCEPT !.hash_chain = hash_chain]
                       advanced == [opened EXCEPT !.sequence = sequence,
                                                  !.prev_hash = hash_chain]
                   IN  /\ lclock' = logical_clock
                       /\ CASE io = "write_fails" ->
                                 \* write_all fails before a byte of the line
                                 \* is taken
                                 /\ wstate' = advanced
                                 /\ lfiles' = files1
                                 /\ lbuf' = buf1
                                 /\ lret' = [call |-> lret.call + 1, ok |-> FALSE]
                            [] io = "flush_fails" ->
                                 \* the line stays in the BufWriter's buffer
                                 /\ wstate' = advanced
                                 /\ lfiles' = files1
                                 /\ lbuf' = Append(buf1, envelope)
                                 /\ lret' = [call |-> lret.call + 1, ok |-> FALSE]
                            [] OTHER ->
                                 /\ wstate' = [advanced EXCEPT
                                                 !.bytes_written = @ + LineBytes]
                                 /\ lfiles' = [files1 EXCEPT ![advanced.file] =
                                                 @ \o Append(buf1, envelope)]
                                 /\ lbuf' = <<>>
                                 /\ lret' = [call |-> lret.call + 1, ok |-> TRUE]
    /\ lok' = IF io = "ok" THEN Append(lok, event) ELSE lok
    /\ UNCHANGED <<lcfg, lnow, lwriters>>

\* LedgerWriter::append_async called on its own.
append(event, io, dropOk) ==
    /\ append_body(event, io, dropOk)
    /\ UNCHANGED notLedger

\* LedgerInner::flush succeeding with lines left in the buffer.
flush ==
    /\ lbuf # <<>>
    /\ lfiles' = [lfiles EXCEPT ![wstate.file] = @ \o lbuf]
    /\ lbuf' = <<>>
    /\ UNCHANGED <<lcfg, wstate, lclock, lnow, lret, lok, lwriters, notLedger>>

\* The wall clock advances.
LedgerTick ==
    /\ lnow < MaxWall
    /\ lnow' = lnow + 1
    /\ UNCHANGED <<lcfg, wstate, lclock, lfiles, lbuf, lret, lok, lwriters, notLedger>>

LedgerNext ==
    \/ \E event \in LedgerEvents, io \in IoOutcomes, dropOk \in BOOLEAN :
           append(event, io, dropOk)
    \/ flush
    \/ LedgerTick

(***************************************************************************)
(* territory.rs: the lease registry, with the quorum arithmetic of         *)
(* consensus.rs.                                                           *)
(*                                                                         *)
(* Instants and durations are in clock ticks; progress and the consensus   *)
(* threshold are in hundredths.  A call of the manager takes the state     *)
(* write lock, decides, and releases the lock; what it does after the      *)
(* lock (recording the quorum, emitting its events) is kept in            *)
(* pending[agent] and runs as a later step, interleaved with the other     *)
(* agents' calls.                                                          *)
(***************************************************************************)
MaxCalls == 3       \* calls of the manager's API in one run
MaxNow == 1         \* Instant::now() ranges over 0 .. MaxNow

Agents == {"a1", "a2", "a3"}
Resources == {"r1"}

\* TerritoryPolicy: the baseline's override_priority_delta and
\* consensus_threshold, and two other policies `with_policy` accepts.
TerritoryPolicies ==
    { [default_lease_duration |-> 2, max_lease_duration |-> 4,
       auto_extend_threshold |-> 1, escalation_queue_threshold |-> 2,
       fairness_starvation_threshold |-> 2,
       override_priority_delta |-> 1, consensus_threshold |-> 66,
       heat_decay_per_second |-> 0, heat_increment |-> 0, heat_max |-> 2],
      [default_lease_duration |-> 1, max_lease_duration |-> 4,
       auto_extend_threshold |-> 1, escalation_queue_threshold |-> 3,
       fairness_starvation_threshold |-> 1,
       override_priority_delta |-> 2, consensus_threshold |-> 50,
       heat_decay_per_second |-> 0, heat_increment |-> 0, heat_max |-> 2] }

\* A policy that escalates as soon as one request waits.
EscalatingPolicies ==
    { [default_lease_duration |-> 2, max_lease_duration |-> 4,
       auto_extend_threshold |-> 1, escalation_queue_threshold |-> 1,
       fairness_starvation_threshold |-> 2,
       override_priority_delta |-> 1, consensus_threshold |-> 66,
       heat_decay_per_second |-> 0, heat_increment |-> 0, heat_max |-> 2] }

\* A policy under which a request is deferred as soon as it meets a holder
\* (the lease lasts no longer than auto_extend_threshold) and no request of
\* the two lowest tiers overrides another. Runs under it are followed for
\* MaxWaiterCalls calls.
MaxWaiterCalls == 4
WaitingPolicies ==
    { [default_lease_duration |-> 1, max_lease_duration |-> 4,
       auto_extend_threshold |-> 1, escalation_queue_threshold |-> 3,
       fairness_starvation_threshold |-> 2,
       override_priority_delta |-> 2, consensus_threshold |-> 50,
       heat_decay_per_second |-> 0, heat_increment |-> 0, heat_max |-> 2] }
WaiterPriorities == {0, 1}

\* The baseline policy with a heat map that heats: one unit per bump, at
\* most two, and a decay of nothing or of everything per second.
HeatingPolicies ==
    { [default_lease_duration |-> 2, max_lease_duration |-> 4,
       auto_extend_threshold |-> 1, escalation_queue_threshold |-> 2,
       fairness_starvation_threshold |-> 2,
       override_priority_delta |-> 1, consensus_threshold |-> 66,
       heat_decay_per_second |-> decay, heat_increment |-> 1,
       heat_max |-> 2] : decay \in {0, 1} }

\* A policy from_config accepts whose default_lease_duration is longer than
\* its max_lease_duration.
CappedPolicies ==
    { [default_lease_duration |-> 2, max_lease_duration |-> 1,
       auto_extend_threshold |-> 1, escalation_queue_threshold |-> 2,
       fairness_starvation_threshold |-> 2,
       override_priority_delta |-> 1, consensus_threshold |-> 66,
       heat_decay_per_second |-> 0, heat_increment |-> 0, heat_max |-> 2] }

\* f32::clamp(0.0, 1.0) on hundredths
clamp01(x) == Max(0, Min(x, 100))

\* LeaseRequest::new
NewLeaseRequest(agent_id, resource_id, priority) ==
    [agent_id |-> agent_id, resource_id |-> resource_id, priority |-> priority,
     progress_hint |-> Nothing]

hint_or_zero(request) ==
    IF request.progress_hint = Nothing THEN 0 ELSE request.progress_hint[1]

\* Lease::new
NewLease(id, request, now) ==
    LET effective_duration ==
            IF tpolicy.default_lease_duration < tpolicy.max_lease_duration
            THEN tpolicy.default_lease_duration
            ELSE tpolicy.max_lease_duration
    IN  [id |-> id,
         resource_id |-> request.resource_id,
         holder_id |-> request.agent_id,
         priority |-> request.priority,
         granted_at |-> now,
         expires_at |-> now + effective_duration,
         last_heartbeat_at |-> now,
         holder_progress |-> clamp01(hint_or_zero(request)),
         conflict_attempts |-> 0,
         defer_count |-> 0,
         override_count |-> 0]

\* lease_record_from: what an emitted event keeps of a lease
lease_record_from(lease) ==
    [lease_id |-> lease.id, resource_id |-> lease.resource_id,
     holder_id |-> lease.holder_id, priority |-> lease.priority]

\* consensus.rs quorum_vote
quorum_vote(agent_id, weight, vote) ==
    [agent_id |-> agent_id, weight |-> weight, vote |-> vote]

RECURSIVE SumWeights(_, _)
SumWeights(votes, onlyAgree) ==
    IF votes = <<>> THEN 0
    ELSE (IF onlyAgree /\ ~Head(votes).vote THEN 0 ELSE Head(votes).weight)
         + SumWeights(Tail(votes), onlyAgree)

\* record_quorum without the coercion of non-positive weights
quorum_vector_raw(configured, resource_id, votes, reason) ==
    LET total_weight == SumWeights(votes, FALSE)
        agree_weight == SumWeights(votes, TRUE)
        threshold == Min(Max(configured, 0), 100)
    IN  [resource_id |-> resource_id, threshold |-> threshold,
         total_weight |-> total_weight, agree_weight |-> agree_weight,
         achieved |-> IF total_weight > 0
                      THEN agree_weight * 100 >= threshold * total_weight
                      ELSE FALSE,
         reason |-> reason, votes |-> votes]

\* ConsensusBroker::record_quorum: the QuorumVector it builds.  The model's
\* weights are whole numbers and its thresholds hundredths, so
\* agree / total >= threshold is agree * 100 >= threshold * total, and
\* total > f32::EPSILON is total > 0.
quorum_vector(configured, resource_id, votes, reason) ==
    LET normal == [i \in 1 .. Len(votes) |->
                     IF votes[i].weight <= 0
                     THEN [votes[i] EXCEPT !.weight = 1] ELSE votes[i]]
        total_weight == SumWeights(normal, FALSE)
        agree_weight == SumWeights(normal, TRUE)
        threshold == Min(Max(configured, 0), 100)
        achieved == IF total_weight > 0
                    THEN agree_weight * 100 >= threshold * total_weight
                    ELSE FALSE
    IN  [resource_id |-> resource_id, threshold |-> threshold,
         total_weight |-> total_weight, agree_weight |-> agree_weight,
         achieved |-> achieved, reason |-> reason, votes |-> normal]

\* The vector the manager's broker commits (its threshold is the policy's
\* consensus_threshold), without the list of votes.
QuorumVector(resource_id, votes, reason) ==
    LET v == quorum_vector(tpolicy.consensus_threshold, resource_id, votes, reason)
    IN  [resource_id |-> v.resource_id, threshold |-> v.threshold,
         total_weight |-> v.total_weight, agree_weight |-> v.agree_weight,
         achieved |-> v.achieved, reason |-> v.reason]

\* The comparator of TerritoryState::reindex: higher tier first, then
\* earlier enqueued_at.
EntryBefore(a, b) ==
    \/ a.priority > b.priority
    \/ a.priority = b.priority /\ a.enqueued_at < b.enqueued_at

\* sort_by is a stable sort: an entry goes behind every entry that is not
\* after it.
RECURSIVE InsertSorted(_, _)
InsertSorted(sorted, e) ==
    IF sorted = <<>> THEN <<e>>
    ELSE IF EntryBefore(e, Head(sorted)) THEN <<e>> \o sorted
    ELSE <<Head(sorted)>> \o InsertSorted(Tail(sorted), e)

RECURSIVE SortEntries(_)
SortEntries(entries) ==
    IF entries = <<>> THEN <<>>
    ELSE InsertSorted(SortEntries(SubSeq(entries, 1, Len(entries) - 1)),
                      entries[Len(entries)])

\* TerritoryState::reindex
reindex(entries) ==
    LET sorted == SortEntries(entries)
    IN  [i \in 1 .. Len(sorted) |->
           [sorted[i] EXCEPT
              !.queue_position = i,
              !.state = IF sorted[i].deferred_until # Nothing /\ @ = "Queued"
                        THEN "Deferred" ELSE @]]

\* TerritoryState::enqueue: the queue after it, and the position of the
\* new entry.
enqueue(entries, request, request_id, requested_at, state, deferred_until) ==
    LET entry == [id |-> request_id,
                  agent_id |-> request.agent_id,
                  priority |-> request.priority,
                  queue_position |-> Len(entries) + 1,
                  enqueued_at |-> requested_at,
                  deferred_until |-> deferred_until,
                  state |-> state]
    IN  reindex(Append(entries, entry))

PositionOf(entries, request_id) ==
    LET found == { i \in 1 .. Len(entries) : entries[i].id = request_id }
    IN  IF found = {} THEN 1 ELSE entries[SetMin(found)].queue_position

\* take_next without the test of the deferral deadline
take_next_index_any(entries, now) == IF entries = <<>> THEN 0 ELSE 1

\* TerritoryState::take_next: the index of the entry it removes from the
\* reindexed queue, or 0.
take_next_index(entries, now) ==
    LET ready == { i \in 1 .. Len(entries) :
                     \/ entries[i].deferred_until = Nothing
                     \/ entries[i].deferred_until[1] <= now }
    IN  IF ready = {} THEN 0 ELSE SetMin(ready)

\* HeatMap::new
HeatMapNew(decay_per_second, increment, max_value) ==
    [decay_per_second |-> Min(Max(decay_per_second, 0), 1),
     increment |-> Max(increment, 0),
     max_value |-> Max(max_value, 0),
     cells |-> [r \in Resources |-> None]]

\* HeatMap::decay_cell. decay_per_second is a whole number here, so the base
\* 1 - decay_per_second is 0 or 1 and base.powf(seconds) is the base.
decay_cell(decay_per_second, cell, now) ==
    LET seconds == now - cell.updated_at
        base == Min(Max(1 - decay_per_second, 0), 1)
        factor == IF base = 0 THEN 0 ELSE 1
    IN  IF seconds > 0 /\ decay_per_second > 0
        THEN [cell EXCEPT !.value = @ * factor]
        ELSE cell

\* HeatMap::summary: decays every cell, drops the cells below 0.01 (whole
\* values: the cells at 0) and names the hottest of the rest.
heat_summary_of(heat, now) ==
    LET decayed == [r \in Resources |->
                      IF heat.cells[r] = None THEN None
                      ELSE decay_cell(heat.decay_per_second, heat.cells[r], now)]
        kept == [r \in Resources |->
                   IF decayed[r] # None /\ decayed[r].value < 1 THEN None
                   ELSE decayed[r]]
        tracked == {r \in Resources : kept[r] # None}
        hottest == {r \in tracked :
                      \A other \in tracked : kept[other].value <= kept[r].value}
    IN  [heat |-> [heat EXCEPT !.cells = kept],
         summary |-> IF tracked = {}
                     THEN [hottest_resource |-> Nothing, hottest_score |-> 0,
                           tracked |-> 0]
                     ELSE LET r == CHOOSE r \in hottest : TRUE
                          IN  [hottest_resource |-> Some(r),
                               hottest_score |-> kept[r].value,
                               tracked |-> Cardinality(tracked)]]

\* HeatMap::bump
bump(heat, resource, now) ==
    LET found == IF heat.cells[resource] = None
                 THEN [value |-> 0, updated_at |-> now]
                 ELSE heat.cells[resource]
        cell == decay_cell(heat.decay_per_second, found, now)
        bumped == [value |-> Min(cell.value + heat.increment, heat.max_value),
                   updated_at |-> now]
    IN  heat_summary_of([heat EXCEPT !.cells[resource] = bumped], now)

\* guard.leases.get(resource)
ActiveLeaseNone(resource) == None
ActiveLease(resource) == leases[resource]

\* The override rule of acquire_lease (priority_delta against the policy).
ShouldOverrideStrict(request_priority, active_priority) ==
    request_priority - active_priority > tpolicy.override_priority_delta
ShouldOverride(request_priority, active_priority) ==
    request_priority - active_priority >= tpolicy.override_priority_delta

\* The effects a call leaves for after the lock.
QuorumEffect(resource, votes, reason) ==
    [kind |-> "quorum", resource_id |-> resource, votes |-> votes,
     reason |-> reason]
EmitEffect(event) == [kind |-> "emit", event |-> event]
\* metrics.record_lease_grant / _deferral / _override
RecordEffect(counter) == [kind |-> "record", counter |-> counter]
\* bump_heat_map(resource) and publish_heat_summary()
BumpEffect(resource) == [kind |-> "bump", resource_id |-> resource]
PublishEffect == [kind |-> "publish"]

\* LeaseInventorySnapshot::from_state on the state (ls, qs), as the
\* arguments of the update_lease_inventory that follows the lock.
InventoryEffect(ls, qs) ==
    LET held == {r \in Resources : ls[r] # None}
    IN  [kind |-> "inventory", active |-> Cardinality(held),
         pending |-> [r \in Resources |-> Len(qs[r])],
         outstanding |-> {ls[r].id : r \in held}]

\* May `agent` start a call: it is not inside one.
CallLimit == IF tpolicy \in WaitingPolicies THEN MaxWaiterCalls ELSE MaxCalls
CanCall(agent) == pending[agent] = <<>> /\ tcall.n < CallLimit

Returned(op, agent, resource, priority, decision) ==
    [n |-> tcall.n + 1, op |-> op, agent |-> agent, resource |-> resource,
     priority |-> priority, decision |-> decision, promoted |-> None,
     grace_deadline |-> Nothing]

TerritoryStart(policies) ==
    /\ tpolicy \in policies
    /\ tnow = 0
    /\ leases = [r \in Resources |-> None]
    /\ tqueues = [r \in Resources |-> <<>>]
    /\ lease_id_counter = 1
    /\ request_id_counter = 1
    /\ pending = [a \in Agents |-> <<>>]
    /\ quorums = <<>>
    /\ tevents = <<>>
    /\ tcall = [n |-> 0, op |-> "none", agent |-> "none", resource |-> "none",
                priority |-> 0, decision |-> "none", promoted |-> None,
                grace_deadline |-> Nothing]
    /\ lease_metrics = [active_leases |-> 0,
                        pending_by_resource |-> [r \in Resources |-> 0],
                        outstanding_leases |-> {},
                        grants |-> 0, deferrals |-> 0, overrides |-> 0,
                        escalations |-> 0]
    /\ heat_map = HeatMapNew(tpolicy.heat_decay_per_second,
                             tpolicy.heat_increment, tpolicy.heat_max)
    /\ heat_summary = [hottest_resource |-> Nothing, hottest_score |-> 0,
                       tracked |-> 0]

TerritoryInit == TerritoryStart(TerritoryPolicies)

\* acquire_lease, the override branch: the lease is rewritten in place.
AcquireOverride(request, active, now, votes) ==
    LET resource == request.resource_id
        lease == [active EXCEPT
                    !.holder_id = request.agent_id,
                    !.priority = request.priority,
                    !.granted_at = now,
                    !.expires_at = now + tpolicy.default_lease_duration,
                    !.last_heartbeat_at = now,
                    !.holder_progress = clamp01(hint_or_zero(request)),
                    !.override_count = @ + 1]
    IN  /\ leases' = [leases EXCEPT ![resource] = lease]
        /\ pending' = [pending EXCEPT ![request.agent_id] =
              << BumpEffect(resource),
                 QuorumEffect(resource, votes, "override"),
                 RecordEffect("overrides"),
                 InventoryEffect([leases EXCEPT ![resource] = lease], tqueues),
                 EmitEffect([kind |-> "Overridden",
                             previous |-> lease_record_from(active),
                             lease |-> lease_record_from(lease)]) >>]
        /\ tcall' = Returned("acquire_lease", request.agent_id, resource,
                             request.priority, "Overridden")
        /\ UNCHANGED <<tqueues, lease_id_counter, request_id_counter, tevents,
                       lease_metrics, heat_map,
                   heat_summary>>

\* a holder whose lease always counts as about to expire
time_left_zero(active, now) == 0

\* active.expires_at.checked_duration_since(now).unwrap_or_default()
time_left(active, now) == Max(active.expires_at - now, 0)

\* an escalation rule that looks at the queue's depth only
escalation_depth_only(entries, now) ==
    IF Len(entries) >= tpolicy.escalation_queue_threshold
    THEN "queueDepth" ELSE "none"

\* acquire_lease: should_escalate and the reason of the Escalated event
\* ("none" when should_escalate is false).
escalation(entries, now) ==
    LET deep == Len(entries) >= tpolicy.escalation_queue_threshold
        starved == \E i \in 1 .. Len(entries) :
                      now - entries[i].enqueued_at
                          >= tpolicy.fairness_starvation_threshold
    IN  IF deep THEN "queueDepth"
        ELSE IF starved THEN "starvation" ELSE "none"

\* acquire_lease, the branch that defers or queues the request.
AcquireWait(request, active, now, votes) ==
    LET resource == request.resource_id
        requester_id == request.agent_id
        defer == time_left(active, now) <= tpolicy.auto_extend_threshold
        entries == IF defer
                   THEN enqueue(tqueues[resource], request, request_id_counter, now,
                                "Deferred", Some(now + tpolicy.auto_extend_threshold))
                   ELSE enqueue(tqueues[resource], request, request_id_counter, now,
                                "Queued", Nothing)
        handle == [resource_id |-> resource, agent_id |-> requester_id,
                   queue_position |-> PositionOf(entries, request_id_counter)]
        waiters == SelectSeq(entries, LAMBDA e : e.agent_id # requester_id)
        quorum_votes == votes \o [i \in 1 .. Len(waiters) |->
                           quorum_vote(waiters[i].agent_id,
                                       waiters[i].priority + 1, FALSE)]
        reason == escalation(entries, now)
        should_escalate == reason # "none"
        quorum_reason == IF should_escalate THEN "escalate"
                         ELSE IF defer THEN "defer" ELSE "queue"
        counted == IF defer THEN [active EXCEPT !.defer_count = @ + 1]
                   ELSE [active EXCEPT !.conflict_attempts = @ + 1]
    IN  /\ leases' = [leases EXCEPT ![resource] = counted]
        /\ tqueues' = [tqueues EXCEPT ![resource] = entries]
        /\ request_id_counter' = request_id_counter + 1
        \* record_lease_escalation and the Escalated event come before the
        \* lock is released
        /\ lease_metrics' = IF should_escalate
                            THEN [lease_metrics EXCEPT !.escalations = @ + 1]
                            ELSE lease_metrics
        /\ tevents' = IF should_escalate
                      THEN Append(tevents,
                                  [kind |-> "Escalated", handle |-> handle,
                                   reason |-> reason])
                      ELSE tevents
        /\ pending' = [pending EXCEPT ![requester_id] =
              << RecordEffect("deferrals"),
                 BumpEffect(resource),
                 QuorumEffect(resource, quorum_votes, quorum_reason),
                 InventoryEffect([leases EXCEPT ![resource] = counted],
                                 [tqueues EXCEPT ![resource] = entries]),
                 EmitEffect([kind |-> IF defer THEN "Deferred" ELSE "Queued",
                             handle |-> handle]) >>]
        /\ tcall' = [Returned("acquire_lease", requester_id, resource,
                              request.priority,
                              IF defer THEN "Deferred" ELSE "Queued")
                       EXCEPT !.grace_deadline =
                          IF defer THEN Some(now + tpolicy.auto_extend_threshold)
                          ELSE Nothing]
        /\ UNCHANGED <<lease_id_counter, heat_map, heat_summary>>

\* acquire_lease, no lease on the resource: a new lease is granted.
AcquireGrant(request, now) ==
    LET lease == NewLease(lease_id_counter, request, now)
    IN  /\ leases' = [leases EXCEPT ![request.resource_id] = lease]
        /\ lease_id_counter' = lease_id_counter + 1
        /\ pending' = [pending EXCEPT ![request.agent_id] =
              << RecordEffect("grants"),
                 InventoryEffect([leases EXCEPT ![request.resource_id] = lease],
                                 tqueues),
                 PublishEffect,
                 EmitEffect([kind |-> "Granted",
                             lease |-> lease_record_from(lease)]) >>]
        /\ tcall' = Returned("acquire_lease", request.agent_id,
                             request.resource_id, request.priority, "Granted")
        /\ UNCHANGED <<tqueues, request_id_counter, tevents, lease_metrics, heat_map,
                   heat_summary>>

\* TerritoryManager::acquire_lease, up to the release of the state lock.
acquire_lease_body(agent, resource, priority) ==
    /\ CanCall(agent)
    /\ LET request == NewLeaseRequest(agent, resource, priority)
           now == tnow
           active == ActiveLease(resource)
       IN  IF active # None
           THEN LET quorum_votes ==
                      << quorum_vote(active.holder_id, active.priority + 1, FALSE),
                         quorum_vote(agent, priority + 1, TRUE) >>
                IN  IF ShouldOverride(priority, active.priority)
                    THEN AcquireOverride(request, active, now, quorum_votes)
                    ELSE AcquireWait(request, active, now, quorum_votes)
           ELSE AcquireGrant(request, now)
    /\ UNCHANGED <<tpolicy, tnow, quorums>>

\* acquire_lease of a manager without a ledger.
acquire_lease(agent, resource, priority) ==
    /\ acquire_lease_body(agent, resource, priority)
    /\ UNCHANGED notTerritory

\* a release that any agent may make
release_by_anyone(lease, agent) == lease = None

\* release_lease: the two early returns with None.
release_refused(lease, agent) == lease = None \/ lease.holder_id # agent

\* TerritoryManager::release_lease, up to the release of the state lock.
release_lease(agent, resource) ==
    /\ CanCall(agent)
    /\ LET now == tnow
           lease == leases[resource]
       IN  IF release_refused(lease, agent)
           THEN /\ tcall' = Returned("release_lease", agent, resource, 0, "None")
                /\ UNCHANGED <<leases, tqueues, lease_id_counter, pending>>
           ELSE /\ tcall' =
                     [Returned("release_lease", agent, resource, 0, "Some")
                        EXCEPT !.promoted =
                          LET entries == reindex(tqueues[resource])
                              idx == take_next_index(entries, now)
                          IN  IF idx = 0 THEN None ELSE entries[idx]]
                /\ LET entries == reindex(tqueues[resource])
                       idx == take_next_index(entries, now)
                   IN
                    IF idx = 0
                    THEN /\ leases' = [leases EXCEPT ![resource] = None]
                         /\ tqueues' = [tqueues EXCEPT ![resource] = entries]
                         /\ pending' = [pending EXCEPT ![agent] =
                               << InventoryEffect(
                                      [leases EXCEPT ![resource] = None],
                                      [tqueues EXCEPT ![resource] = entries]),
                                  PublishEffect,
                                  EmitEffect([kind |-> "Released",
                                              lease |-> lease_record_from(lease)]) >>]
                         /\ UNCHANGED lease_id_counter
                    ELSE LET entry == entries[idx]
                             request == NewLeaseRequest(entry.agent_id, resource,
                                                        entry.priority)
                             granted == NewLease(lease_id_counter, request, now)
                         IN  /\ leases' = [leases EXCEPT ![resource] = granted]
                             /\ tqueues' = [tqueues EXCEPT ![resource] =
                                              RemoveAt(entries, idx)]
                             /\ lease_id_counter' = lease_id_counter + 1
                             /\ pending' = [pending EXCEPT ![agent] =
                                   << InventoryEffect(
                                          [leases EXCEPT ![resource] = granted],
                                          [tqueues EXCEPT ![resource] =
                                             RemoveAt(entries, idx)]),
                                      PublishEffect,
                                      EmitEffect([kind |-> "Released",
                                                  lease |-> lease_record_from(lease)]),
                                      RecordEffect("grants"),
                                      EmitEffect([kind |-> "Granted",
                                                  lease |-> lease_record_from(granted)]) >>]
    /\ UNCHANGED <<tpolicy, tnow, request_id_counter, quorums, tevents,
                   lease_metrics, heat_map,
                   heat_summary>>
    /\ UNCHANGED notTerritory

\* TransferRequest.new_priority values tried
TransferPriorities == {Nothing, Some(Critical)}

\* a transfer that is refused only when the resource has no lease
transfer_any_caller(lease, from_agent) == lease = None

\* transfer_lease: the two early returns with TransferDecision::Rejected.
transfer_rejected(lease, from_agent) ==
    lease = None \/ lease.holder_id # from_agent

\* TerritoryManager::transfer_lease, up to the release of the state lock.
transfer_lease(from_agent, to_agent, resource, new_priority) ==
    /\ CanCall(from_agent)
    /\ LET now == tnow
           lease == leases[resource]
       IN  IF transfer_rejected(lease, from_agent)
           THEN /\ tcall' = Returned("transfer_lease", from_agent, resource, 0,
                                     "Rejected")
                /\ UNCHANGED <<leases, pending>>
           ELSE LET moved == [lease EXCEPT
                                !.holder_id = to_agent,
                                !.priority = IF new_priority = Nothing THEN @
                                             ELSE new_priority[1],
                                !.granted_at = now,
                                !.expires_at = now + tpolicy.default_lease_duration,
                                !.last_heartbeat_at = now,
                                !.override_count = @ + 1]
                IN  /\ leases' = [leases EXCEPT ![resource] = moved]
                    /\ pending' = [pending EXCEPT ![from_agent] =
                          << RecordEffect("overrides"),
                             InventoryEffect([leases EXCEPT ![resource] = moved],
                                             tqueues),
                             EmitEffect([kind |-> "Overridden",
                                         previous |-> lease_record_from(lease),
                                         lease |-> lease_record_from(moved)]) >>]
                    /\ tcall' = Returned("transfer_lease", from_agent, resource, 0,
                                         "Transferred")
    /\ UNCHANGED <<tpolicy, tnow, tqueues, lease_id_counter, request_id_counter,
                   quorums, tevents, lease_metrics, heat_map,
                   heat_summary>>
    /\ UNCHANGED notTerritory

\* progress values passed to update_progress, in hundredths
ProgressInputs == {150}

\* TerritoryManager::update_progress
update_progress(resource, agent, progress) ==
    /\ CanCall(agent)
    /\ LET lease == leases[resource]
       IN  IF lease = None \/ lease.holder_id # agent
           THEN /\ tcall' = Returned("update_progress", agent, resource, 0, "None")
                /\ UNCHANGED leases
           ELSE /\ leases' = [leases EXCEPT ![resource] =
                      [lease EXCEPT !.holder_progress = clamp01(progress),
                                    !.last_heartbeat_at = tnow]]
                /\ tcall' = Returned("update_progress", agent, resource, 0, "Some")
    /\ UNCHANGED <<tpolicy, tnow, tqueues, lease_id_counter, request_id_counter,
                   pending, quorums, tevents, lease_metrics, heat_map,
                   heat_summary>>
    /\ UNCHANGED notTerritory

\* The quorum vectors and the events that a list of effects adds.
RECURSIVE QuorumsOf(_)
QuorumsOf(effects) ==
    IF effects = <<>> THEN <<>>
    ELSE (IF Head(effects).kind = "quorum"
          THEN << QuorumVector(Head(effects).resource_id, Head(effects).votes,
                               Head(effects).reason) >>
          ELSE <<>>) \o QuorumsOf(Tail(effects))

RECURSIVE EventsOf(_)
EventsOf(effects) ==
    IF effects = <<>> THEN <<>>
    ELSE (IF Head(effects).kind = "emit" THEN << Head(effects).event >> ELSE <<>>)
         \o EventsOf(Tail(effects))

\* One effect applied to the metrics: a record_lease_* counter or
\* update_lease_inventory.
apply_metric(metrics, effect) ==
    CASE effect.kind = "record" ->
           [metrics EXCEPT ![effect.counter] = @ + 1]
      [] effect.kind = "inventory" ->
           [metrics EXCEPT !.active_leases = effect.active,
                           !.pending_by_resource = effect.pending,
                           !.outstanding_leases = effect.outstanding]
      [] OTHER -> metrics

RECURSIVE MetricsAfter(_, _)
MetricsAfter(metrics, effects) ==
    IF effects = <<>> THEN metrics
    ELSE MetricsAfter(apply_metric(metrics, Head(effects)), Tail(effects))

\* One effect applied to the heat map and to the heat summary in metrics:
\* bump_heat_map or publish_heat_summary at Instant::now().
apply_heat(state, effect, now) ==
    CASE effect.kind = "bump" -> bump(state.heat, effect.resource_id, now)
      [] effect.kind = "publish" -> heat_summary_of(state.heat, now)
      [] OTHER -> state

RECURSIVE HeatAfter(_, _, _)
HeatAfter(state, effects, now) ==
    IF effects = <<>> THEN state
    ELSE HeatAfter(apply_heat(state, Head(effects), now), Tail(effects), now)

\* The rest of a call, after the lock: record_quorum_decision (the broker
\* commits the quorum vector), the metrics, then emit_event.
AfterLock(agent) ==
    /\ pending[agent] # <<>>
    /\ quorums' = quorums \o QuorumsOf(pending[agent])
    /\ tevents' = tevents \o EventsOf(pending[agent])
    /\ lease_metrics' = MetricsAfter(lease_metrics, pending[agent])
    /\ LET after == HeatAfter([heat |-> heat_map, summary |-> heat_summary],
                              pending[agent], tnow)
       IN  heat_map' = after.heat /\ heat_summary' = after.summary
    /\ pending' = [pending EXCEPT ![agent] = <<>>]
    /\ UNCHANGED <<tpolicy, tnow, leases, tqueues, lease_id_counter,
                   request_id_counter, tcall>>
    /\ UNCHANGED notTerritory

\* Time passes.
TerritoryTick ==
    /\ tnow < MaxNow
    /\ tnow' = tnow + 1
    /\ UNCHANGED <<tpolicy, leases, tqueues, lease_id_counter, request_id_counter,
                   pending, quorums, tevents, tcall, lease_metrics, heat_map,
                   heat_summary>>
    /\ UNCHANGED notTerritory

\* Requests of the two lowest tiers and releases only.
WaitersNext ==
    \/ \E agent \in Agents, resource \in Resources, priority \in WaiterPriorities :
           acquire_lease(agent, resource, priority)
    \/ \E agent \in Agents, resource \in Resources : release_lease(agent, resource)
    \/ \E agent \in Agents : AfterLock(agent)
    \/ TerritoryTick

TerritoryNext ==
    \/ \E agent \in Agents, resource \in Resources, priority \in Priorities :
           acquire_lease(agent, resource, priority)
    \/ \E agent \in Agents, resource \in Resources : release_lease(agent, resource)
    \/ \E from_agent \in Agents, to_agent \in Agents, resource \in Resources,
          new_priority \in TransferPriorities :
           transfer_lease(from_agent, to_agent, resource, new_priority)
    \/ \E resource \in Resources, agent \in Agents, progress \in ProgressInputs :
           update_progress(resource, agent, progress)
    \/ \E agent \in Agents : AfterLock(agent)
    \/ TerritoryTick

(***************************************************************************)
(* consensus.rs: ConsensusBroker::record_quorum.  A broker and its clones  *)
(* share one `inflight` mutex; brokers built separately on the same        *)
(* LedgerWriter (main.rs builds one, TerritoryManager builds its own) each *)
(* have their own.  A caller holds the mutex from the first line of        *)
(* record_quorum to its return; each append_consensus_event is one         *)
(* LedgerInner::append, atomic under the writer's state lock, and may      *)
(* fail.                                                                   *)
(***************************************************************************)
MaxQuorumCalls == 2   \* calls of record_quorum in one run

Brokers == {"b1", "b2"}
Callers == {"k1", "k2"}

\* default_threshold values, in hundredths (f32 in the code)
Thresholds == {66, 150, 0 - 5}

\* The vote sets passed to record_quorum.
VoteSets ==
    { <<>>,
      << quorum_vote("a1", 2, TRUE), quorum_vote("a2", 1, FALSE) >>,
      << quorum_vote("a1", 0, TRUE), quorum_vote("a2", 0 - 3, FALSE),
         quorum_vote("a3", 2, FALSE) >> }

ConsensusInit ==
    /\ default_threshold \in Thresholds
    /\ inflight = [b \in Brokers |-> "free"]
    /\ cpc = [k \in Callers |-> "idle"]
    /\ cargs = [k \in Callers |-> None]
    /\ clog = <<>>
    /\ cerrors = 0
    /\ cdone = {}
    /\ cnext = 0

\* A caller enters record_quorum on broker b and waits for inflight.lock().
record_quorum(k, b, votes) ==
    /\ cpc[k] = "idle"
    /\ cnext < MaxQuorumCalls
    /\ cnext' = cnext + 1
    /\ cargs' = [cargs EXCEPT ![k] =
                   [id |-> cnext + 1, broker |-> b, resource_id |-> "r1",
                    votes |-> votes, reason |-> "override"]]
    /\ cpc' = [cpc EXCEPT ![k] = "lock"]
    /\ UNCHANGED <<default_threshold, inflight, clog, cerrors, cdone>>
    /\ UNCHANGED notConsensus

\* The vector of caller k's call.
VectorOf(k) ==
    quorum_vector(default_threshold, cargs[k].resource_id, cargs[k].votes,
                  cargs[k].reason)

\* inflight.lock() is granted; an empty vote set returns true at once (the
\* guard is dropped with the return).
AcquireInflight(k) ==
    /\ cpc[k] = "lock"
    /\ inflight[cargs[k].broker] = "free"
    /\ IF cargs[k].votes = <<>>
       THEN /\ cdone' = cdone \cup
                   {[id |-> cargs[k].id, votes |-> <<>>, vector |-> None,
                     achieved |-> TRUE]}
            /\ cpc' = [cpc EXCEPT ![k] = "idle"]
            /\ cargs' = [cargs EXCEPT ![k] = None]
            /\ UNCHANGED inflight
       ELSE /\ inflight' = [inflight EXCEPT ![cargs[k].broker] = k]
            /\ cpc' = [cpc EXCEPT ![k] = "proposal"]
            /\ UNCHANGED <<cargs, cdone>>
    /\ UNCHANGED <<default_threshold, clog, cerrors, cnext>>
    /\ UNCHANGED notConsensus

AppendOutcomes == {"ok", "fails"}

\* append_consensus_event: one append to the shared ledger; on failure the
\* event is not in the log and record_ledger_error counts it.  After the
\* Commit the call records its metrics and returns, dropping the guard.
append_consensus_event(k, io) ==
    /\ cpc[k] \in {"proposal", "vote", "commit"}
    /\ IF io = "ok"
       THEN /\ clog' = Append(clog, [phase |-> cpc[k], call |-> cargs[k].id,
                                     vector |-> VectorOf(k)])
            /\ UNCHANGED cerrors
       ELSE /\ cerrors' = cerrors + 1
            /\ UNCHANGED clog
    /\ IF cpc[k] = "commit"
       THEN /\ cdone' = cdone \cup
                   {[id |-> cargs[k].id, votes |-> cargs[k].votes,
                     vector |-> VectorOf(k),
                     achieved |-> VectorOf(k).achieved]}
            /\ inflight' = [inflight EXCEPT ![cargs[k].broker] = "free"]
            /\ cpc' = [cpc EXCEPT ![k] = "idle"]
            /\ cargs' = [cargs EXCEPT ![k] = None]
       ELSE /\ cpc' = [cpc EXCEPT ![k] =
                         IF cpc[k] = "proposal" THEN "vote" ELSE "commit"]
            /\ UNCHANGED <<inflight, cargs, cdone>>
    /\ UNCHANGED <<default_threshold, cnext>>
    /\ UNCHANGED notConsensus

ConsensusNext ==
    \/ \E k \in Callers, b \in Brokers, votes \in VoteSets : record_quorum(k, b, votes)
    \/ \E k \in Callers : AcquireInflight(k)
    \/ \E k \in Callers, io \in AppendOutcomes : append_consensus_event(k, io)

(***************************************************************************)
(* ledger/mod.rs: HybridLogicalClock::tick on its own, fed any sequence    *)
(* of wall-clock readings.                                                 *)
(***************************************************************************)
MaxTicks == 6       \* calls of tick in one run

\* SystemTime::now() in milliseconds since the epoch (0 for a time before it)
WallReadings == 0 .. 3

ClockInit ==
    /\ hclock = [last_wall |-> 0, counter |-> 0]
    /\ hlast = None
    /\ hprev = None
    /\ hn = 0

\* LogicalClock::now: one tick with the wall clock reading `now`.
LogicalClockNow(now) ==
    /\ hn < MaxTicks
    /\ hclock' = tick(hclock, now)
    /\ hlast' = [wall_millis |-> tick(hclock, now).last_wall,
                 counter |-> tick(hclock, now).counter]
    /\ hprev' = hlast
    /\ hn' = hn + 1
    /\ UNCHANGED notClock

ClockNext == \E now \in WallReadings : LogicalClockNow(now)

(***************************************************************************)
(* ledger/mod.rs: replay.  ReplayCoordinator::replay_epoch folds the       *)
(* envelopes read_epoch returns into a ReplayOutcome.  A LedgerEvent is a  *)
(* record whose `type` is the enum variant.                                *)
(***************************************************************************)
RouterReplayDefault ==
    [total_dispatched |-> 0, last_priority |-> Nothing, queue_depths |-> <<>>]

\* LeaseReplayState::default; `active` maps a resource to its LeaseRecord.
LeaseReplayDefault ==
    [active |-> [r \in Resources |-> None],
     deferrals |-> 0, overrides |-> 0, escalations |-> 0]

ReplayOutcomeDefault ==
    [router |-> RouterReplayDefault, leases |-> LeaseReplayDefault,
     metrics |-> Nothing,
     checkpoints |-> 0, last_sequence |-> Nothing, tail_hash |-> Nothing]

\* apply_dispatch that records the priority and depths but does not count.
apply_dispatch_uncounted(router, record) ==
    [total_dispatched |-> router.total_dispatched,
     last_priority |-> Some(record.effective_priority),
     queue_depths |-> record.queue_depths]

\* RouterReplayState::apply_dispatch
apply_dispatch(router, record) ==
    [total_dispatched |-> router.total_dispatched + 1,
     last_priority |-> Some(record.effective_priority),
     queue_depths |-> record.queue_depths]

\* RouterReplayState::to_snapshot: the depths by tier index, for the tiers
\* queue_depths has, and the last dispatched priority.
to_snapshot(router) ==
    [queue_depths |-> [idx \in 0 .. Len(router.queue_depths) - 1 |->
                         router.queue_depths[idx + 1]],
     last_dispatched_priority |-> router.last_priority]

\* main.rs priority_vec_from_map
priority_vec_from_map(depths) ==
    [i \in 1 .. PRIORITY_LEVELS |->
       IF i - 1 \in DOMAIN depths THEN depths[i - 1] ELSE 0]

\* LeaseReplayState::to_summary
to_summary(state) ==
    [active_leases |-> Cardinality({ r \in Resources : state.active[r] # None }),
     deferrals |-> state.deferrals,
     overrides |-> state.overrides,
     escalations |-> state.escalations]

\* LeaseReplayState::apply
lease_apply(state, event) ==
    CASE event.kind = "Granted" ->
           [state EXCEPT !.active[event.lease.resource_id] = event.lease]
      [] event.kind = "Released" ->
           [state EXCEPT !.active[event.lease.resource_id] = None]
      [] event.kind = "Deferred" ->
           [state EXCEPT !.deferrals = @ + 1]
      [] event.kind = "Escalated" ->
           [state EXCEPT !.escalations = @ + 1]
      [] event.kind = "Overridden" ->
           [state EXCEPT !.overrides = @ + 1,
                         !.active[event.lease.resource_id] = event.lease]

\* ReplayOutcome::update_from_checkpoint
update_from_checkpoint(outcome, checkpoint) ==
    [outcome EXCEPT !.metrics = Some(checkpoint.metrics),
                    !.router = checkpoint.router, !.leases = checkpoint.leases]

\* The body of replay_epoch's loop for one LedgerEvent.
replay_event(outcome, event) ==
    CASE event.type = "Router" ->
           IF event.kind = "Dispatched"
           THEN [outcome EXCEPT !.router = apply_dispatch(@, event.record)]
           ELSE outcome
      [] event.type = "Lease" ->
           [outcome EXCEPT !.leases = lease_apply(@, event)]
      [] event.type = "Checkpoint" ->
           update_from_checkpoint([outcome EXCEPT !.checkpoints = @ + 1], event)
      [] OTHER -> outcome

\* replay_epoch's loop over the envelopes read.
RECURSIVE replay_envelopes(_, _)
replay_envelopes(outcome, envelopes) ==
    IF envelopes = <<>> THEN outcome
    ELSE replay_envelopes(
           [replay_event(outcome, Head(envelopes).event) EXCEPT
              !.last_sequence = Some(Head(envelopes).sequence),
              !.tail_hash = Some(Head(envelopes).hash_chain)],
           Tail(envelopes))

\* ReplayCoordinator::replay_epoch
replay_epoch(files) ==
    LET outcome == replay_envelopes(ReplayOutcomeDefault, read_epoch(files))
    IN  IF outcome.metrics = Nothing
        THEN [outcome EXCEPT !.metrics = Some([router |-> to_snapshot(outcome.router),
                                               leases |-> to_summary(outcome.leases)])]
        ELSE outcome

\* territory.rs ledger_event_from_territory: Queued is logged as Deferred.
ledger_event_from_territory(event) ==
    CASE event.kind \in {"Granted", "Released"} ->
           [type |-> "Lease", kind |-> event.kind, lease |-> event.lease]
      [] event.kind = "Overridden" ->
           [type |-> "Lease", kind |-> "Overridden",
            previous |-> event.previous, lease |-> event.lease]
      [] event.kind \in {"Deferred", "Queued"} ->
           [type |-> "Lease", kind |-> "Deferred", handle |-> event.handle]
      [] event.kind = "Escalated" ->
           [type |-> "Lease", kind |-> "Escalated", handle |-> event.handle,
            reason |-> event.reason]

(***************************************************************************)
(* A log written by successful appends of router, lease and checkpoint     *)
(* events, by one LedgerWriter after another on the same epoch.            *)
(***************************************************************************)
MaxWriters == 2     \* LedgerWriter::new calls on the epoch in one run

LeaseRecordA == [lease_id |-> 1, resource_id |-> "r1", holder_id |-> "a1",
                 priority |-> Coordinate]
LeaseRecordB == [lease_id |-> 1, resource_id |-> "r1", holder_id |-> "a2",
                 priority |-> Critical]
HandleA == [resource_id |-> "r1", agent_id |-> "a3", queue_position |-> 1]

\* The router and lease events appended.
ReplayEvents ==
    { [type |-> "Router", kind |-> "Dispatched",
       record |-> [effective_priority |-> Critical,
                   queue_depths |-> <<0, 1, 0, 0, 0>>]],
      [type |-> "Lease", kind |-> "Granted", lease |-> LeaseRecordA],
      [type |-> "Lease", kind |-> "Released", lease |-> LeaseRecordA],
      [type |-> "Lease", kind |-> "Overridden", previous |-> LeaseRecordA,
       lease |-> LeaseRecordB],
      [type |-> "Lease", kind |-> "Deferred", handle |-> HandleA],
      [type |-> "Lease", kind |-> "Escalated", handle |-> HandleA,
       reason |-> "queueDepth"] }

\* How many events of lok satisfy a test.
CountOk(Test(_)) == Cardinality({ i \in 1 .. Len(lok) : Test(lok[i]) })

IsDispatch(e) == e.type = "Router" /\ e.kind = "Dispatched"
IsLease(e, kind) == e.type = "Lease" /\ e.kind = kind

\* The resources with a lease after the lease events of `events`.
ActiveResources(events) ==
    { r \in Resources :
        \E i \in DOMAIN events :
            /\ events[i].type = "Lease"
            /\ events[i].kind \in {"Granted", "Overridden"}
            /\ events[i].lease.resource_id = r
            /\ \A j \in (i + 1) .. Len(events) :
                   ~(IsLease(events[j], "Released") /\ events[j].lease.resource_id = r) }

\* metrics.rs get_snapshot, its router and lease parts.  The collector's
\* counters are taken to agree with the events logged so far; the depths
\* are given for every tier, 0 where none was stored.
get_snapshot ==
    LET IsDeferred(e) == IsLease(e, "Deferred")
        IsOverridden(e) == IsLease(e, "Overridden")
        IsEscalated(e) == IsLease(e, "Escalated")
        dispatched == { i \in 1 .. Len(lok) : IsDispatch(lok[i]) }
        last == IF dispatched = {} THEN 0
                ELSE CHOOSE i \in dispatched : \A j \in dispatched : j <= i
        stored == IF last = 0 THEN <<>> ELSE lok[last].record.queue_depths
    IN  [total_messages_routed |-> CountOk(IsDispatch),
         router |-> [queue_depths |->
                        [idx \in 0 .. PRIORITY_LEVELS - 1 |->
                           IF idx + 1 \in DOMAIN stored THEN stored[idx + 1] ELSE 0],
                     last_dispatched_priority |->
                        IF last = 0 THEN Nothing
                        ELSE Some(lok[last].record.effective_priority)],
         leases |-> [active_leases |-> Cardinality(ActiveResources(lok)),
                     deferrals |-> CountOk(IsDeferred),
                     overrides |-> CountOk(IsOverridden),
                     escalations |-> CountOk(IsEscalated)]]

\* main.rs MetricsStreamState::ensure_running: the StateCheckpoint built
\* from the metrics snapshot; the lease state is
\* LeaseReplayState::default() with only its three counters filled in.
PeriodicCheckpoint ==
    LET snapshot == get_snapshot
    IN  [type |-> "Checkpoint",
         router |-> [total_dispatched |-> snapshot.total_messages_routed,
                     last_priority |-> snapshot.router.last_dispatched_priority,
                     queue_depths |-> priority_vec_from_map(snapshot.router.queue_depths)],
         leases |-> [LeaseReplayDefault EXCEPT
                       !.deferrals = snapshot.leases.deferrals,
                       !.overrides = snapshot.leases.overrides,
                       !.escalations = snapshot.leases.escalations],
         metrics |-> [router |-> snapshot.router, leases |-> snapshot.leases]]

\* A router or lease event is appended and the append succeeds.
append_event(event) ==
    /\ event.type \in {"Router", "Lease"}
    /\ append(event, "ok", TRUE)

\* submit_checkpoint_task: the periodic checkpoint is appended.
record_checkpoint ==
    /\ PeriodicCheckpoint.type = "Checkpoint"
    /\ append(PeriodicCheckpoint, "ok", TRUE)

\* LedgerWriter::new on the epoch that is already there (the process was
\* restarted with the same current_epoch): segment 0 is opened for append,
\* the WriterState and the clock start afresh.
LedgerWriterNew ==
    /\ lwriters < MaxWriters
    /\ lbuf = <<>>
    /\ lwriters' = lwriters + 1
    /\ wstate' = NewWriterState(lnow)
    /\ lclock' = [last_wall |-> 0, counter |-> 0]
    /\ UNCHANGED <<lcfg, lfiles, lbuf, lnow, lret, lok, notLedger>>

ReplayNext ==
    \/ \E event \in ReplayEvents : append_event(event)
    \/ record_checkpoint
    \/ LedgerWriterNew
    \/ LedgerTick
(***************************************************************************)
(* A TerritoryManager built by with_policy_and_ledger: what each call does *)
(* after the state lock goes to the ledger, one append at a time, and an   *)
(* append that fails is counted by MetricsCollector::record_ledger_error.  *)
(***************************************************************************)
MaxLoggedCalls == 2     \* calls of the manager's API in one run with a ledger

\* metrics.rs record_ledger_error / record_ledger_append, after an append
\* that returned `ok`
CountAppend(failures, ok) == IF ok THEN failures ELSE failures + 1

\* What is left of the agent's call after the step at the head is done.
Advance(agent) == [pending EXCEPT ![agent] = Tail(@)]

\* The phase after `kind` inside ConsensusBroker::record_quorum.
NextPhase(kind) ==
    CASE kind = "quorum" -> "quorum_vote"
      [] kind = "quorum_vote" -> "quorum_commit"
      [] OTHER -> "done"

PhaseName(kind) ==
    CASE kind = "quorum" -> "proposal"
      [] kind = "quorum_vote" -> "vote"
      [] OTHER -> "commit"

\* Some call holds the broker's `inflight` mutex: it is past its Proposal.
InflightHeld ==
    \E a \in Agents : /\ pending[a] # <<>>
                      /\ Head(pending[a]).kind \in {"quorum_vote", "quorum_commit"}

\* acquire_lease of a manager with a ledger: the Escalated event, emitted
\* before the state lock is released, is appended inside the call.
acquire_lease_logged(agent, resource, priority, io, dropOk) ==
    /\ acquire_lease_body(agent, resource, priority)
    /\ IF Len(tevents') > Len(tevents)
       THEN /\ append_body(ledger_event_from_territory(tevents'[Len(tevents')]),
                           io, dropOk)
            /\ append_failures' = CountAppend(append_failures, lret'.ok)
       ELSE /\ io = "ok" /\ dropOk
            /\ UNCHANGED <<lvars, mvars>>
    /\ UNCHANGED <<rvars, cvars, hvars>>

\* The API calls of a manager with a ledger.
LoggedCall ==
    /\ tcall.n < MaxLoggedCalls
    /\ \/ \E agent \in Agents, resource \in Resources, priority \in Priorities,
             io \in IoOutcomes, dropOk \in BOOLEAN :
              acquire_lease_logged(agent, resource, priority, io, dropOk)
       \/ \E agent \in Agents, resource \in Resources : release_lease(agent, resource)
       \/ \E from_agent \in Agents, to_agent \in Agents, resource \in Resources,
             new_priority \in TransferPriorities :
              transfer_lease(from_agent, to_agent, resource, new_priority)
       \/ \E resource \in Resources, agent \in Agents, progress \in ProgressInputs :
              update_progress(resource, agent, progress)

\* ConsensusBroker::append_consensus_event for the next phase of the call's
\* record_quorum; the call returns from record_quorum after the Commit.
append_consensus_event_of(agent, io, dropOk) ==
    /\ pending[agent] # <<>>
    /\ LET effect == Head(pending[agent])
           vector == QuorumVector(effect.resource_id, effect.votes, effect.reason)
           next == NextPhase(effect.kind)
       IN  /\ effect.kind \in {"quorum", "quorum_vote", "quorum_commit"}
           /\ effect.kind = "quorum" => ~InflightHeld
           /\ append_body([type |-> "Consensus", phase |-> PhaseName(effect.kind),
                           vector |-> vector], io, dropOk)
           /\ append_failures' = CountAppend(append_failures, lret'.ok)
           /\ IF next = "done"
              THEN /\ quorums' = Append(quorums, vector)
                   /\ pending' = Advance(agent)
              ELSE /\ quorums' = quorums
                   /\ pending' = [pending EXCEPT ![agent] =
                                    <<[effect EXCEPT !.kind = next]>> \o Tail(@)]
    /\ UNCHANGED <<tpolicy, tnow, leases, tqueues, lease_id_counter,
                   request_id_counter, tevents, tcall, lease_metrics, heat_map,
                   heat_summary>>
    /\ UNCHANGED <<rvars, cvars, hvars>>

\* TerritoryManager::emit_event
emit_event(agent, io, dropOk) ==
    /\ pending[agent] # <<>>
    /\ Head(pending[agent]).kind = "emit"
    /\ LET event == Head(pending[agent]).event
       IN  /\ tevents' = Append(tevents, event)
           /\ append_body(ledger_event_from_territory(event), io, dropOk)
    /\ append_failures' = CountAppend(append_failures, lret'.ok)
    /\ pending' = Advance(agent)
    /\ UNCHANGED <<tpolicy, tnow, leases, tqueues, lease_id_counter,
                   request_id_counter, quorums, tcall, lease_metrics, heat_map,
                   heat_summary>>
    /\ UNCHANGED <<rvars, cvars, hvars>>

\* The calls between the appends: record_lease_grant, _deferral, _override,
\* update_lease_inventory, bump_heat_map and publish_heat_summary.
record_lease_metrics(agent) ==
    /\ pending[agent] # <<>>
    /\ Head(pending[agent]).kind \in {"record", "inventory", "bump", "publish"}
    /\ lease_metrics' = apply_metric(lease_metrics, Head(pending[agent]))
    /\ LET after == apply_heat([heat |-> heat_map, summary |-> heat_summary],
                               Head(pending[agent]), tnow)
       IN  heat_map' = after.heat /\ heat_summary' = after.summary
    /\ pending' = Advance(agent)
    /\ UNCHANGED <<tpolicy, tnow, leases, tqueues, lease_id_counter,
                   request_id_counter, quorums, tevents, tcall>>
    /\ UNCHANGED notTerritory

LeaseLedgerNext ==
    \/ LoggedCall
    \/ \E agent \in Agents, io \in IoOutcomes, dropOk \in BOOLEAN :
           append_consensus_event_of(agent, io, dropOk)
    \/ \E agent \in Agents, io \in IoOutcomes, dropOk \in BOOLEAN :
           emit_event(agent, io, dropOk)
    \/ \E agent \in Agents : record_lease_metrics(agent)
    \/ TerritoryTick

(***************************************************************************)
(* The router built with a ledger (with_settings_and_ledger).  router.rs   *)
(* as given has no such constructor; its callers are main.rs and the       *)
(* integration tests, and the events are declared in ledger/mod.rs.  The   *)
(* emission below follows the contract: a dispatch appends one             *)
(* Router.Dispatched, a rate-limit requeue one Router.RateLimited.         *)
(***************************************************************************)

\* queue_depths(&queues): the five queue lengths, lowest tier first.
queue_depths(qs) == [i \in 1 .. PRIORITY_LEVELS |-> Len(qs[i - 1])]

\* RouterDispatchRecord of a delivery.
DispatchedEvent(m, qs) ==
    [type |-> "Router", kind |-> "Dispatched",
     record |-> [message_id |-> m.id, sender |-> m.sender,
                 priority |-> m.priority,
                 effective_priority |-> m.effective_priority,
                 queue_depths |-> queue_depths(qs),
                 aging_boosts |-> m.aging_boosts,
                 retry_count |-> m.retry_count]]

\* RateLimitedRecord of a requeue.
RateLimitedEvent(m, bucket) ==
    [type |-> "Router", kind |-> "RateLimited",
     record |-> [sender |-> m.sender, priority |-> m.effective_priority,
                 tokens_remaining |-> bucket.tokens]]

\* run_dispatcher's decision with a ledger attached whose file system works.
DispDecideLogged ==
    /\ DispDecideBody
    /\ LET r == try_consume(BucketOf(hand.sender), token_cost(hand.effective_priority))
       IN  append_body(IF r[1] THEN DispatchedEvent(hand, queues)
                       ELSE RateLimitedEvent(hand, r[2]), "ok", TRUE)
    /\ UNCHANGED <<tvars, cvars, hvars, mvars>>

RouterLedgerNext ==
    \/ \E s \in Senders, p \in Priorities : route_message(s, p)
    \/ RouterTick
    \/ AgingScan
    \/ AgingPush
    \/ DispTake
    \/ DispDecideLogged
    \/ DispIdle


(***************************************************************************)
(* router.rs: route_message called by several tasks at once.  A call runs  *)
(* ensure_dispatcher_started under the `dispatcher` mutex (lock, look at   *)
(* the guard, spawn and store the handle, unlock) and then pushes its      *)
(* message; the steps of different callers and of the dispatcher task      *)
(* interleave.                                                             *)
(***************************************************************************)
\* The calls that have begun and not yet pushed their message.
CallsInProgress == { c \in RouteCallers : rcaller[c] # "idle" }

\* a mutex that lets every caller in
lock_not_exclusive(holder) == TRUE

\* Mutex::lock().await returns when no task holds the guard.
lock_acquired(holder) == holder = "free"

RouterFrame == <<lvars, tvars, cvars, hvars, mvars>>

\* ensure_dispatcher_started: `self.dispatcher.lock().await`
lock_dispatcher(c) ==
    /\ rcaller[c] = "idle"
    /\ nextMsg + Cardinality(CallsInProgress) < MaxMsgs
    /\ lock_acquired(dispatcher_lock)
    /\ dispatcher_lock' = c
    /\ rcaller' = [rcaller EXCEPT ![c] = "locked"]
    /\ UNCHANGED <<rcfg, queues, buckets, started, dpc, apri, aidx, spri, hand,
                   delivered, lastDelivery, nextMsg, passStart, spawned>>
    /\ UNCHANGED RouterFrame

\* ensure_dispatcher_started: `if guard.is_some() { return; }`; the return
\* drops the guard.
check_dispatcher(c) ==
    /\ rcaller[c] = "locked"
    /\ IF started
       THEN /\ rcaller' = [rcaller EXCEPT ![c] = "push"]
            /\ dispatcher_lock' = "free"
       ELSE /\ rcaller' = [rcaller EXCEPT ![c] = "spawn"]
            /\ UNCHANGED dispatcher_lock
    /\ UNCHANGED <<rcfg, queues, buckets, started, dpc, apri, aidx, spri, hand,
                   delivered, lastDelivery, nextMsg, passStart, spawned>>
    /\ UNCHANGED RouterFrame

\* ensure_dispatcher_started: tokio::spawn(run_dispatcher(..)), `*guard =
\* Some(handle)`, and the guard is dropped.
spawn_dispatcher(c) ==
    /\ rcaller[c] = "spawn"
    /\ spawned' = spawned + 1
    /\ started' = TRUE
    /\ dispatcher_lock' = "free"
    /\ rcaller' = [rcaller EXCEPT ![c] = "push"]
    /\ UNCHANGED <<rcfg, queues, buckets, dpc, apri, aidx, spri, hand,
                   delivered, lastDelivery, nextMsg, passStart>>
    /\ UNCHANGED RouterFrame

\* route_message after ensure_dispatcher_started: push_back on the tier of
\* the declared priority.
push_message(c, sender, priority) ==
    /\ rcaller[c] = "push"
    /\ nextMsg' = nextMsg + 1
    /\ queues' = [queues EXCEPT
                    ![priority] = push_back(@, NewQueued(nextMsg + 1, sender, priority))]
    /\ rcaller' = [rcaller EXCEPT ![c] = "idle"]
    /\ UNCHANGED <<rcfg, buckets, started, dpc, apri, aidx, spri, hand,
                   delivered, lastDelivery, passStart, spawned, dispatcher_lock>>
    /\ UNCHANGED RouterFrame

RouterStartNext ==
    \/ \E c \in RouteCallers : lock_dispatcher(c)
    \/ \E c \in RouteCallers : check_dispatcher(c)
    \/ \E c \in RouteCallers : spawn_dispatcher(c)
    \/ \E c \in RouteCallers, s \in Senders, p \in Priorities : push_message(c, s, p)
    \/ RouterTick
    \/ AgingScan
    \/ AgingPush
    \/ DispTake
    \/ DispDecide
    \/ DispIdle

(***************************************************************************)
(* Specifications: one per subsystem.  The subsystems share no state, so   *)
(* each specification holds the others at their initial state.             *)
(***************************************************************************)
RouterIdle == RouterInit /\ rcfg.token_capacity = 200
LedgerIdle == LedgerInit /\ lcfg.segment_size_bytes = 2
TerritoryIdle == TerritoryInit /\ tpolicy.override_priority_delta = 1
ConsensusIdle == ConsensusInit /\ default_threshold = 66

Others(r, l, t, c, h) ==
    /\ r => RouterIdle
    /\ l => LedgerIdle
    /\ t => TerritoryIdle
    /\ c => ConsensusIdle
    /\ h => ClockInit
    /\ append_failures = 0

RouterAlone == RouterInit /\ Others(FALSE, TRUE, TRUE, TRUE, TRUE)
LedgerAlone == LedgerInit /\ Others(TRUE, FALSE, TRUE, TRUE, TRUE)
TerritoryAlone == TerritoryInit /\ Others(TRUE, TRUE, FALSE, TRUE, TRUE)
ConsensusAlone == ConsensusInit /\ Others(TRUE, TRUE, TRUE, FALSE, TRUE)
ClockAlone == ClockInit /\ Others(TRUE, TRUE, TRUE, TRUE, FALSE)
RouterConfiguredInit ==
    /\ RouterStart({from_router_config(c) : c \in RawRouterConfigs})
    /\ Others(FALSE, TRUE, TRUE, TRUE, TRUE)
RouterLedgerInit == RouterInit /\ Others(FALSE, TRUE, TRUE, TRUE, TRUE)
LeaseLedgerInit ==
    /\ TerritoryStart(EscalatingPolicies)
    /\ LedgerIdle
    /\ Others(TRUE, FALSE, FALSE, TRUE, TRUE)

SpecRouter == RouterAlone /\ [][RouterNext]_vars

\* The dispatcher task keeps running (its idle wait ends with the
\* idle_backoff timer at the latest) and time keeps passing.
SpecRouterFair ==
    /\ RouterAlone
    /\ [][RouterNext]_vars
    /\ WF_rvars(Dispatcher)
    /\ WF_rvars(RouterTick)

SpecLedger == LedgerAlone /\ [][LedgerNext]_vars

SpecTerritory == TerritoryAlone /\ [][TerritoryNext]_vars

SpecConsensus == ConsensusAlone /\ [][ConsensusNext]_vars

SpecClock == ClockAlone /\ [][ClockNext]_vars

\* The ledger with successful appends only, replayed.
SpecReplay == LedgerAlone /\ [][ReplayNext]_vars


\* A TerritoryManager writing to a LedgerWriter whose appends can fail.
SpecLeaseLedger == LeaseLedgerInit /\ [][LeaseLedgerNext]_vars

\* The router writing its events to a ledger.
SpecRouterLedger == RouterLedgerInit /\ [][RouterLedgerNext]_vars

\* The router built by with_settings from a RouterConfig.
SpecRouterConfigured == RouterConfiguredInit /\ [][RouterNext]_vars

\* The territory manager with a heat map that heats.
HeatInit == TerritoryStart(HeatingPolicies) /\ Others(TRUE, TRUE, FALSE, TRUE, TRUE)
SpecHeat == HeatInit /\ [][TerritoryNext]_vars

\* The territory manager under the waiting policy.
WaitersInit == TerritoryStart(WaitingPolicies) /\ Others(TRUE, TRUE, FALSE, TRUE, TRUE)
SpecWaiters == WaitersInit /\ [][WaitersNext]_vars

\* The holder of a lease releases it.
HolderRelease(agent, resource) ==
    /\ leases[resource] # None
    /\ leases[resource].holder_id = agent
    /\ release_lease(agent, resource)

\* Under the waiting policy, with time that keeps passing, calls that run to
\* their end once they have left the lock, and holders that release their
\* lease. The last two are weak fairness of AfterLock and HolderRelease,
\* written with the state predicate that enables each of them.
SpecWaitersFair ==
    /\ WaitersInit
    /\ [][WaitersNext]_vars
    /\ WF_tvars(TerritoryTick)
    /\ \A agent \in Agents :
          \/ []<>(pending[agent] = <<>>)
          \/ []<><<AfterLock(agent)>>_tvars
    /\ \A agent \in Agents, resource \in Resources :
          \/ []<>~(/\ leases[resource] # None
                   /\ leases[resource].holder_id = agent
                   /\ CanCall(agent))
          \/ []<><<HolderRelease(agent, resource)>>_tvars

\* The lease registry under a policy whose default duration exceeds the
\* maximum.
CappedInit == TerritoryStart(CappedPolicies) /\ Others(TRUE, TRUE, FALSE, TRUE, TRUE)

SpecCapped == CappedInit /\ [][TerritoryNext]_vars

\* The router with the default configuration, its route_message calls made
\* step by step by concurrent tasks.
RouterStartInit == RouterIdle /\ Others(FALSE, TRUE, TRUE, TRUE, TRUE)

SpecRouterStart == RouterStartInit /\ [][RouterStartNext]_vars
(***************************************************************************)
(* Router claims.                                                          *)
(***************************************************************************)
\* The tokens a try_consume would find in the sender's bucket now (after its
\* lazy refill).
TokensAvailable(s) == refill(BucketOf(s)).tokens

Affordable(m) == TokensAvailable(m.sender) >= token_cost(m.effective_priority)

Queued == UNION { { queues[p][i] : i \in 1 .. Len(queues[p]) } : p \in Priorities }

\* C2: strict descending tier order.  Whenever the dispatcher takes a message
\* b that it is going to deliver (b's sender has the tokens for b), no
\* message of a strictly higher effective tier whose sender has the tokens
\* for it is waiting in the queues at that moment.  Only messages that were
\* already enqueued when the dispatcher began this pass over the tiers count
\* as waiting, so a message that arrives behind the dispatcher's back is not
\* held against it.
C2_PriorityDominance ==
    [][ (dpc = "scan" /\ dpc' = "decide" /\ Affordable(Head(queues[spri])))
          => ~ \E a \in Queued :
                 /\ a.id <= passStart
                 /\ a.effective_priority > Head(queues[spri]).effective_priority
                 /\ Affordable(a) ]_rvars

\* C6: FIFO per sender and effective tier.  Whenever a message is delivered,
\* no message of the same sender and the same effective tier that was
\* enqueued before it is still waiting.
C6_FifoSameSenderTier ==
    [][ (dpc = "decide" /\ delivered' # delivered)
          => ~ \E a \in Queued :
                 /\ a.sender = hand.sender
                 /\ a.effective_priority = hand.effective_priority
                 /\ a.id < hand.id ]_rvars

\* C7: no message is dropped or duplicated.  Every accepted message is in
\* exactly one place: one entry of one tier queue, the dispatcher's hand, or
\* one delivery; a message not yet accepted is nowhere.
Copies(id) ==
    LET inQueue(p) == Occurrences(queues[p], id) IN
    inQueue(0) + inQueue(1) + inQueue(2) + inQueue(3) + inQueue(4)
    + (IF hand # None /\ hand.id = id THEN 1 ELSE 0)
    + delivered[id]

C7_NoDropNoDuplicate ==
    \A id \in 1 .. MaxMsgs : Copies(id) = (IF id <= nextMsg THEN 1 ELSE 0)

\* C7 witness: a message was delivered after both an aging move and a
\* rate-limit requeue.
C7_Witness ==
    /\ lastDelivery # None
    /\ lastDelivery.aging_boosts >= 1
    /\ lastDelivery.retry_count >= 1

\* C8: rate limiting is transient.  With a positive refill rate, a message
\* that was requeued for insufficient tokens is eventually delivered.
Requeued(id) == \E a \in Queued : a.id = id /\ a.retry_count > 0

C8_RequeuedEventuallyDelivered ==
    \A id \in 1 .. MaxMsgs :
        (rcfg.token_refill_rate > 0 /\ Requeued(id)) ~> (delivered[id] > 0)


(***************************************************************************)
(* Ledger claims.                                                          *)
(***************************************************************************)

\* C3: the hash chain of the epoch verifies.  Whatever appends were made
\* (successful or failed, with or without rotations), every envelope in the
\* log carries H(predecessor's hash_chain, envelope without hash_chain), the
\* first one with predecessor "0", so verify_epoch returns true.
C3_HashChainVerifies == verify_epoch(lfiles)

\* C4: sequence numbers are gap free.  The envelopes read_epoch returns are
\* numbered 1, 2, 3, ... in the order read, after any appends, rotations and
\* failed appends.
C4_SequenceGapFree ==
    LET entries == read_epoch(lfiles)
    IN  \A i \in 1 .. Len(entries) : entries[i].sequence = i

\* C5: append is atomic per event.  A call of append that fails leaves the
\* writer's sequence, previous hash, segment index, bytes written and
\* segment open time as they were and adds no line to the log; a call that
\* succeeds adds exactly one line to the log.
C5_AppendAtomic ==
    [][ (lret'.call # lret.call) =>
          IF lret'.ok
          THEN Len(read_epoch(lfiles')) = Len(read_epoch(lfiles)) + 1
          ELSE /\ WriterFields(wstate') = WriterFields(wstate)
               /\ read_epoch(lfiles') = read_epoch(lfiles) ]_lvars

(***************************************************************************)
(* Territory claims.                                                       *)
(***************************************************************************)

\* Each lease is filed under its own resource and no two resources share a
\* lease: one lease, hence one holder, per resource.
OneLeasePerResource ==
    /\ \A r \in Resources : leases[r] # None => leases[r].resource_id = r
    /\ \A r1, r2 \in Resources :
          (r1 # r2 /\ leases[r1] # None /\ leases[r2] # None)
              => leases[r1].id # leases[r2].id

\* C1: one lease per resource.  After every step of any interleaving of
\* acquire_lease, release_lease, transfer_lease and update_progress calls
\* each resource has at most one lease; and a call of acquire_lease that
\* returns Granted found no lease on the resource and leaves the requester
\* as its holder.
C1_OneLeasePerResource ==
    [][ /\ OneLeasePerResource'
        /\ (tcall'.n # tcall.n /\ tcall'.op = "acquire_lease"
                /\ tcall'.decision = "Granted")
             => /\ leases[tcall'.resource] = None
                /\ leases'[tcall'.resource].holder_id = tcall'.agent ]_tvars

\* An acquire_lease on a held resource has just returned something other
\* than Granted, and the holder is still the holder.
C1_Witness ==
    /\ tcall.op = "acquire_lease"
    /\ tcall.decision \in {"Queued", "Deferred"}
    /\ leases[tcall.resource] # None
    /\ leases[tcall.resource].holder_id # tcall.agent
    /\ tqueues[tcall.resource] # <<>>

\* C9: the override rule.  A call of acquire_lease on a resource that has a
\* lease returns Overridden exactly when the request's tier index minus the
\* holder's is at least override_priority_delta; the lease then keeps its
\* id, has the requester as holder and the request's tier, its override
\* count is one higher, and the resource's queue is as it was.
C9_OverrideRule ==
    [][ (tcall'.n # tcall.n /\ tcall'.op = "acquire_lease"
             /\ leases[tcall'.resource] # None)
          => LET r == tcall'.resource
                 fires == tcall'.priority - leases[r].priority
                              >= tpolicy.override_priority_delta
             IN  /\ (tcall'.decision = "Overridden") <=> fires
                 /\ fires =>
                      /\ leases'[r].id = leases[r].id
                      /\ leases'[r].holder_id = tcall'.agent
                      /\ leases'[r].priority = tcall'.priority
                      /\ leases'[r].override_count = leases[r].override_count + 1
                      /\ tqueues'[r] = tqueues[r] ]_tvars

\* An override has just displaced a holder while another request waits in
\* the resource's queue.
C9_Witness ==
    /\ tcall.op = "acquire_lease"
    /\ tcall.decision = "Overridden"
    /\ leases[tcall.resource].holder_id = tcall.agent
    /\ leases[tcall.resource].override_count = 1
    /\ tqueues[tcall.resource] # <<>>

\* C10: every override is backed by a quorum.  Every quorum vector recorded
\* with reason "override" has achieved = true.
C10_OverrideQuorumAchieved ==
    \A i \in 1 .. Len(quorums) :
        quorums[i].reason = "override" => quorums[i].achieved

\* The entries of a queue that release_lease may promote at `now`.
EligibleEntries(entries, now) ==
    { i \in 1 .. Len(entries) :
        \/ entries[i].deferred_until = Nothing
        \/ entries[i].deferred_until[1] <= now }

EntryIds(entries) == { entries[i].id : i \in 1 .. Len(entries) }

C12_DeferOrQueue ==
    [][ (tcall'.n # tcall.n /\ tcall'.op = "acquire_lease"
             /\ leases[tcall'.resource] # None
             /\ tcall'.priority - leases[tcall'.resource].priority
                    < tpolicy.override_priority_delta)
          => LET r == tcall'.resource
                 remaining == IF leases[r].expires_at > tnow
                              THEN leases[r].expires_at - tnow ELSE 0
                 added == { i \in 1 .. Len(tqueues'[r]) :
                              tqueues'[r][i].id \notin EntryIds(tqueues[r]) }
             IN  /\ IF remaining <= tpolicy.auto_extend_threshold
                    THEN /\ tcall'.decision = "Deferred"
                         /\ tcall'.grace_deadline
                               = Some(tnow + tpolicy.auto_extend_threshold)
                    ELSE /\ tcall'.decision = "Queued"
                         /\ tcall'.grace_deadline = Nothing
                 /\ Len(tqueues'[r]) = Len(tqueues[r]) + 1
                 /\ EntryIds(tqueues[r]) \subseteq EntryIds(tqueues'[r])
                 /\ \E i \in added :
                       /\ added = {i}
                       /\ tqueues'[r][i].agent_id = tcall'.agent
                       /\ tqueues'[r][i].priority = tcall'.priority
                       /\ tqueues'[r][i].deferred_until = tcall'.grace_deadline
                 /\ leases'[r] # None
                 /\ leases'[r].id = leases[r].id
                 /\ leases'[r].holder_id = leases[r].holder_id
                 /\ leases'[r].priority = leases[r].priority
                 /\ leases'[r].expires_at = leases[r].expires_at ]_tvars

\* A request has just been deferred behind a holder whose lease is about to
\* run out, and waits in the queue with its deadline.
C12_Witness ==
    /\ tcall.op = "acquire_lease"
    /\ tcall.decision = "Deferred"
    /\ tcall.grace_deadline = Some(tnow + tpolicy.auto_extend_threshold)
    /\ leases[tcall.resource] # None
    /\ leases[tcall.resource].holder_id # tcall.agent
    /\ leases[tcall.resource].defer_count = 1
    /\ \E i \in 1 .. Len(tqueues[tcall.resource]) :
          /\ tqueues[tcall.resource][i].agent_id = tcall.agent
          /\ tqueues[tcall.resource][i].state = "Deferred"

(***************************************************************************)
(* Consensus claims.                                                       *)
(***************************************************************************)

\* The positions of the log that hold an event of call `id`.
EventsOfCall(id) == { i \in 1 .. Len(clog) : clog[i].call = id }

\* C13: the consensus triple.  For every call of record_quorum that has
\* returned with a non-empty vote set the log holds exactly one Proposal,
\* one Vote and one Commit of that call, in that order, each carrying the
\* call's quorum vector, and no consensus event of another call lies
\* between them; a call with an empty vote set has appended nothing.
C13_ConsensusTriple ==
    \A c \in cdone :
        LET at == EventsOfCall(c.id)
        IN  IF c.votes = <<>>
            THEN at = {}
            ELSE \E p \in at :
                   /\ at = {p, p + 1, p + 2}
                   /\ clog[p].phase = "proposal"
                   /\ clog[p + 1].phase = "vote"
                   /\ clog[p + 2].phase = "commit"
                   /\ \A i \in at : clog[i].vector = c.vector

\* A weight after the coercion of non-positive weights to 1.
CoercedWeight(v) == IF v.weight <= 0 THEN 1 ELSE v.weight

\* The sum of the coerced weights of the votes at the positions in S.
RECURSIVE WeightSum(_, _)
WeightSum(votes, S) ==
    IF S = {} THEN 0
    ELSE LET i == CHOOSE x \in S : TRUE
         IN  CoercedWeight(votes[i]) + WeightSum(votes, S \ {i})

\* C14: the quorum formula.  record_quorum returns
\* achieved = (total > epsilon) and (agree / total >= t), with every
\* non-positive weight first replaced by 1, total the sum of all weights,
\* agree the sum of the yes-votes' weights and t the configured threshold
\* clamped to [0, 1]; for an empty vote set it returns true.
C14_AchievedFormula ==
    \A c \in cdone :
        LET all == 1 .. Len(c.votes)
            yes == { i \in all : c.votes[i].vote }
            total == WeightSum(c.votes, all)
            agree == WeightSum(c.votes, yes)
            t == IF default_threshold < 0 THEN 0
                 ELSE IF default_threshold > 100 THEN 100
                 ELSE default_threshold
        IN  IF c.votes = <<>>
            THEN c.achieved = TRUE
            ELSE c.achieved = (total > 0 /\ agree * 100 >= t * total)

\* A call whose votes include non-positive weights has returned achieved,
\* under a threshold that had to be clamped.
C14_Witness ==
    \E c \in cdone :
        /\ \E i \in 1 .. Len(c.votes) : c.votes[i].weight < 0
        /\ \E i \in 1 .. Len(c.votes) : c.votes[i].weight = 0
        /\ c.achieved
        /\ default_threshold < 0

\* C15: the hybrid logical clock is strictly monotonic.  Of two successive
\* ticks of one clock the later returns the larger (wall_ms, counter) pair
\* in lexicographic order, whatever the wall clock read (advancing, stalled
\* or rewound) and however many ticks were taken while it did not advance.
C15_ClockStrictlyIncreasing ==
    (hprev # None) =>
        \/ hprev.wall_millis < hlast.wall_millis
        \/ /\ hprev.wall_millis = hlast.wall_millis
           /\ hprev.counter < hlast.counter

(***************************************************************************)
(* Replay claims.                                                          *)
(***************************************************************************)

\* The state obtained by applying events one by one.
RECURSIVE FoldEvents(_, _)
FoldEvents(outcome, events) ==
    IF events = <<>> THEN outcome
    ELSE FoldEvents(replay_event(outcome, Head(events)), Tail(events))

\* C16: the replay round trip.  For the events successfully appended to an
\* epoch, replay_epoch returns the router and lease state obtained by
\* applying those events one by one in the order appended, and its
\* last_sequence and tail_hash are those of the last envelope read.
C16_ReplayRoundTrip ==
    LET outcome == replay_epoch(lfiles)
        folded == FoldEvents(ReplayOutcomeDefault, lok)
        entries == read_epoch(lfiles)
    IN  /\ outcome.router = folded.router
        /\ outcome.leases = folded.leases
        /\ entries # <<>> =>
              /\ outcome.last_sequence = Some(entries[Len(entries)].sequence)
              /\ outcome.tail_hash = Some(entries[Len(entries)].hash_chain)

\* The lease events the manager has handed to the ledger, in order.
LeaseLog ==
    [i \in 1 .. Len(tevents) |-> ledger_event_from_territory(tevents[i])]

\* The holder a lease map names for a resource ("" when it names none).
HolderIn(map, r) == IF map[r] = None THEN "" ELSE map[r].holder_id

\* C17: lease events reach the ledger in the order of the mutations.  Once
\* every acquire, release and transfer call has returned, the active-lease
\* map rebuilt by replaying the logged lease events names the same holder
\* for every resource as the manager's in-memory lease map.
C17_ReplayMatchesLeaseMap ==
    (\A a \in Agents : pending[a] = <<>>) =>
        LET replayed == FoldEvents(ReplayOutcomeDefault, LeaseLog).leases.active
        IN  \A r \in Resources : HolderIn(replayed, r) = HolderIn(leases, r)

\* The envelopes of a log without its checkpoints.
SkipCheckpoints(envelopes) ==
    SelectSeq(envelopes, LAMBDA env : env.event.type # "Checkpoint")

\* C18: a checkpoint supersedes the events before it.  For a log whose
\* checkpoints were written by the periodic checkpoint task, replaying the
\* log gives the same router total_dispatched and the same active-lease map
\* as replaying it with the checkpoint events skipped.
C18_CheckpointSupersedes ==
    LET entries == read_epoch(lfiles)
        with == replay_envelopes(ReplayOutcomeDefault, entries)
        without == replay_envelopes(ReplayOutcomeDefault, SkipCheckpoints(entries))
    IN  /\ with.router.total_dispatched = without.router.total_dispatched
        /\ with.leases.active = without.leases.active

\* C19: the sequence is canonical across restarts.  When a new LedgerWriter
\* has been opened on an epoch that already holds envelopes, the envelopes
\* it appends continue the sequence and the hash chain: no two envelopes of
\* the epoch share a sequence number and verify_epoch returns true.
C19_SequenceAcrossRestart ==
    (lwriters > 1) =>
        LET entries == read_epoch(lfiles)
        IN  /\ \A i, j \in 1 .. Len(entries) :
                  (i # j) => entries[i].sequence # entries[j].sequence
            /\ verify_epoch(lfiles)

\* How often `e` occurs in `seq`.
CountOf(seq, e) == Cardinality({i \in DOMAIN seq : seq[i] = e})

\* The events of the lines on disk, in reading order.
LoggedEvents ==
    LET log == read_epoch(lfiles) IN [i \in DOMAIN log |-> log[i].event]

\* Only lease events whose append returned Ok have a line in the log.
OnlyAcknowledged ==
    \A i \in DOMAIN LoggedEvents :
        LoggedEvents[i].type = "Lease" =>
            CountOf(LoggedEvents, LoggedEvents[i]) <= CountOf(lok, LoggedEvents[i])

\* emit_event has run and its append returned Err.
EmitFailed == tevents' # tevents /\ ~lret'.ok

\* C20: when the ledger append of a lease operation's event fails, the
\* decision the operation returns and the lease and queue maps stay as the
\* operation left them (an Escalated event is emitted inside the call, which
\* still answers Deferred or Queued), the append-failure counter goes up by
\* exactly one, and the log holds no line for an event whose append failed.
C20_AppendFailureKept ==
    /\ [][ EmitFailed =>
             /\ append_failures' = append_failures + 1
             /\ IF tcall' = tcall
                THEN leases' = leases /\ tqueues' = tqueues
                ELSE tcall'.decision \in {"Deferred", "Queued"} ]_vars
    /\ []OnlyAcknowledged

\* The number of deliveries sent so far.
RECURSIVE SumOver(_, _)
SumOver(f, S) ==
    IF S = {} THEN 0
    ELSE LET x == CHOOSE y \in S : TRUE IN f[x] + SumOver(f, S \ {x})

TotalDelivered == SumOver(delivered, DOMAIN delivered)

\* The step is a delivery / a rate-limit requeue.
DeliveryStep == dpc = "decide" /\ delivered' # delivered
RequeueStep == dpc = "decide" /\ dpc' # dpc /\ delivered' = delivered

HeldMessages ==
    UNION { {queues[p][i] : i \in DOMAIN queues[p]} : p \in Priorities }
      \cup (IF hand = None THEN {} ELSE {hand})
      \cup (IF lastDelivery = None THEN {} ELSE {lastDelivery})

TierBounds(m) ==
    /\ m.effective_priority >= m.priority
    /\ m.priority # DirectorOverride => m.effective_priority <= Critical

\* C22: for every message, queued or delivered, the effective tier is at
\* least the declared tier and at most critical unless the message was
\* declared directorOverride, and the directorOverride queue holds only
\* messages declared directorOverride.
C22_EffectiveTierBounds ==
    /\ \A m \in HeldMessages : TierBounds(m)
    /\ \A i \in DOMAIN queues[DirectorOverride] :
           queues[DirectorOverride][i].priority = DirectorOverride

\* A message declared critical has been aged (its boost stays at critical)
\* and a message aged up from a lower tier was delivered at critical.
C22_Witness ==
    /\ \E m \in HeldMessages : /\ m.priority = Critical
                               /\ m.aging_boosts > 0
    /\ lastDelivery # None
    /\ lastDelivery.priority < Critical
    /\ lastDelivery.effective_priority = Critical

\* C23: for every sender, in every reachable state and for any configured
\* initial_tokens, the bucket's tokens lie between 0 and its capacity.
C23_TokensWithinCapacity ==
    \A s \in Senders :
        buckets[s] # None =>
            /\ 0 <= buckets[s].tokens
            /\ buckets[s].tokens <= buckets[s].capacity

\* The dispatcher decides about a message whose effective tier is
\* directorOverride.
OverrideDecision ==
    dpc = "decide" /\ hand.effective_priority = DirectorOverride /\ dpc' # dpc

\* C24: a message whose effective tier is directorOverride is delivered the
\* first time the dispatcher takes it from its queue: it is not requeued and
\* the sender's bucket loses no token, whatever the bucket's state or
\* configuration.
C24_OverrideNeverLimited ==
    [][ OverrideDecision =>
          /\ delivered'[hand.id] = delivered[hand.id] + 1
          /\ hand.retry_count = 0
          /\ queues' = queues
          /\ buckets'[hand.sender].tokens = refill(BucketOf(hand.sender)).tokens ]_vars

\* The step is an acquire_lease answered Deferred or Queued.
WaitAnswered ==
    /\ tcall'.n = tcall.n + 1
    /\ tcall'.op = "acquire_lease"
    /\ tcall'.decision \in {"Deferred", "Queued"}

\* The events the step emitted, and those the call still has to emit.
EmittedNow == SubSeq(tevents', Len(tevents) + 1, Len(tevents'))
EscalatedNow(reason) ==
    /\ Len(EmittedNow) = 1
    /\ EmittedNow[1].kind = "Escalated"
    /\ EmittedNow[1].reason = reason
    /\ EmittedNow[1].handle.agent_id = tcall'.agent
    /\ lease_metrics'.escalations = lease_metrics.escalations + 1
NoEscalatedLater ==
    \A i \in DOMAIN pending'[tcall'.agent] :
        LET effect == pending'[tcall'.agent][i]
        IN  effect.kind = "emit" => effect.event.kind # "Escalated"

\* C25: when a request is answered Queued or Deferred and the resource's
\* queue then holds at least escalation_queue_threshold entries, one
\* Escalated event with reason QueueDepth is emitted and the escalations
\* metric goes up by one; when the queue is shorter but some entry has waited
\* at least fairness_starvation_threshold the reason is Starvation; when
\* neither holds no Escalated event is emitted.
C25_EscalationRule ==
    [][ WaitAnswered =>
          LET queue == tqueues'[tcall'.resource]
              deep == Len(queue) >= tpolicy.escalation_queue_threshold
              starved == \E i \in DOMAIN queue :
                            tnow - queue[i].enqueued_at
                                >= tpolicy.fairness_starvation_threshold
          IN  /\ NoEscalatedLater
              /\ IF deep THEN EscalatedNow("queueDepth")
                 ELSE IF starved THEN EscalatedNow("starvation")
                 ELSE /\ EmittedNow = <<>>
                      /\ lease_metrics'.escalations = lease_metrics.escalations ]_vars

\* An escalation for starvation with a queue below the depth threshold, and
\* a request queued without any escalation after it.
C25_Witness ==
    /\ \E i \in DOMAIN tevents : /\ tevents[i].kind = "Escalated"
                                 /\ tevents[i].reason = "starvation"
    /\ lease_metrics.escalations = 1
    /\ lease_metrics.deferrals = 2

\* What a refused transfer_lease leaves alone: leases, queues, metrics, the
\* ledger, and the effects queued for after the lock.
TransferLeftAlone ==
    UNCHANGED <<leases, tqueues, lease_id_counter, quorums, tevents,
                lease_metrics, pending, lfiles, lok, append_failures>>

\* C26: transfer_lease changes the holder only when from_agent is the
\* resource's current holder: then, in the one step, the holder becomes
\* to_agent while the lease id and every queue stay as they were; when
\* from_agent does not match, or the resource has no lease, the answer is
\* Rejected and leases, queues, metrics and ledger are unchanged.
C26_TransferOnlyByHolder ==
    [][ \A from_agent \in Agents, to_agent \in Agents, resource \in Resources,
           new_priority \in TransferPriorities :
          transfer_lease(from_agent, to_agent, resource, new_priority) =>
            IF leases[resource] # None /\ leases[resource].holder_id = from_agent
            THEN /\ tcall'.decision = "Transferred"
                 /\ leases'[resource].holder_id = to_agent
                 /\ leases'[resource].id = leases[resource].id
                 /\ \A other \in Resources \ {resource} :
                        leases'[other] = leases[other]
                 /\ tqueues' = tqueues
            ELSE /\ tcall'.decision = "Rejected"
                 /\ TransferLeftAlone ]_vars

\* A lease that was granted, logged, and then handed to another agent.
C26_Witness ==
    /\ tcall.op = "transfer_lease"
    /\ tcall.decision = "Transferred"
    /\ leases[tcall.resource] # None
    /\ leases[tcall.resource].holder_id # tcall.agent
    /\ \E i \in DOMAIN lok : lok[i].type = "Lease"

\* C27: release_lease called by an agent that is not the resource's current
\* holder, or on a resource without a lease, returns None and leaves the
\* lease, the resource's queue, the lease inventory in metrics and the
\* ledger unchanged, in the call and after it.
C27_ReleaseByNonHolder ==
    [][ \A agent \in Agents, resource \in Resources :
          ( /\ release_lease(agent, resource)
            /\ \/ leases[resource] = None
               \/ leases[resource].holder_id # agent ) =>
            /\ tcall'.decision = "None"
            /\ tcall'.promoted = None
            /\ UNCHANGED <<leases, tqueues, lease_id_counter, tevents,
                           lease_metrics, pending, lfiles, lok,
                           append_failures>> ]_vars

\* A release refused to an agent while another agent holds the lease and
\* its grant is in the ledger.
C27_Witness ==
    /\ tcall.op = "release_lease"
    /\ tcall.decision = "None"
    /\ leases[tcall.resource] # None
    /\ leases[tcall.resource].holder_id # tcall.agent
    /\ \E i \in DOMAIN lok : lok[i].type = "Lease"
    /\ lease_metrics.active_leases = 1

\* A step taken under the state write guard (the critical section of a
\* call), a step in which emit_event sends an event, and a step that waits
\* for a ledger append.
UnderWriteGuard == tcall' # tcall
EmitsEvent == tevents' # tevents
AwaitsAppend == lfiles' # lfiles \/ lok' # lok \/ append_failures' # append_failures

\* C28: the territory manager never emits an event or waits for a ledger
\* append while it holds its state write lock: on every path of
\* acquire_lease, release_lease and transfer_lease the lock is released
\* before emit_event is called.
C28_NoEmitUnderLock ==
    [][ UnderWriteGuard => ~EmitsEvent /\ ~AwaitsAppend ]_vars

\* Every acquire, release and transfer call has returned: no call has work
\* left after its critical section.
AllCallsReturned == \A agent \in Agents : pending[agent] = <<>>

HeldResources == {r \in Resources : leases[r] # None}

\* C29: once all concurrent acquire, release and transfer calls have
\* returned, the lease inventory in metrics describes the territory state:
\* active_leases is the number of leases in the state and the outstanding
\* lease ids are the ids of those leases.
C29_InventoryMatchesState ==
    AllCallsReturned =>
        /\ lease_metrics.active_leases = Cardinality(HeldResources)
        /\ lease_metrics.outstanding_leases = {leases[r].id : r \in HeldResources}

\* The step is an acquire_lease answered with an override of the holder.
OverrideAnswered ==
    /\ tcall'.n = tcall.n + 1
    /\ tcall'.op = "acquire_lease"
    /\ tcall'.decision = "Overridden"

\* The votes the claim expects for an override of leases[resource] by the
\* request just answered, with the queue as the request found it.
ExpectedOverrideVotes ==
    LET resource == tcall'.resource
        waiters == tqueues[resource]
    IN  << quorum_vote(leases[resource].holder_id,
                       leases[resource].priority + 1, FALSE),
           quorum_vote(tcall'.agent, tcall'.priority + 1, TRUE) >>
        \o [i \in DOMAIN waiters |->
              quorum_vote(waiters[i].agent_id, waiters[i].priority + 1, FALSE)]

\* C30: the quorum recorded for an override contains the holder's no-vote
\* with weight holder_tier+1, the requester's yes-vote with weight
\* requester_tier+1, and one no-vote with weight waiter_tier+1 for every
\* request waiting in that resource's queue.
C30_OverrideQuorumVotes ==
    [][ OverrideAnswered =>
          LET effects == pending'[tcall'.agent]
              recorded == effects[CHOOSE i \in DOMAIN effects :
                                     effects[i].kind = "quorum"]
          IN  /\ recorded.kind = "quorum"
              /\ recorded.reason = "override"
              /\ Len(recorded.votes) = Len(ExpectedOverrideVotes)
              /\ \A i \in DOMAIN ExpectedOverrideVotes :
                    CountOf(recorded.votes, ExpectedOverrideVotes[i])
                        = CountOf(ExpectedOverrideVotes, ExpectedOverrideVotes[i]) ]_vars

\* The events a call of `agent` still has to emit, and the step in which
\* an acquire_lease call of `agent` runs its part after the lock. A release
\* that promotes a waiter emits Granted after Released, and a transfer
\* emits Overridden without a quorum.
KindsToEmit(agent) ==
    {pending[agent][i].event.kind :
        i \in {j \in DOMAIN pending[agent] : pending[agent][j].kind = "emit"}}
AcquireCompletes(agent) ==
    /\ pending[agent] # <<>>
    /\ pending'[agent] = <<>>
    /\ \/ KindsToEmit(agent) = {"Granted"}
       \/ KindsToEmit(agent) \cap {"Queued", "Deferred"} # {}
       \/ /\ KindsToEmit(agent) = {"Overridden"}
          /\ \E i \in DOMAIN pending[agent] : pending[agent][i].kind = "quorum"

\* The resource an emitted event of an acquire is about.
ResourceOf(event) ==
    IF event.kind \in {"Queued", "Deferred"} THEN event.handle.resource_id
    ELSE event.lease.resource_id
AcquiredResource(agent) ==
    LET i == CHOOSE j \in DOMAIN pending[agent] : pending[agent][j].kind = "emit"
    IN  ResourceOf(pending[agent][i].event)

\* C31: every acquire_lease call, whether it ends in Granted, Overridden,
\* Queued or Deferred, bumps the heat cell of the requested resource (decay,
\* add the increment, clamp to heat_max) and republishes the heat summary
\* to metrics.
C31_AcquireBumpsHeat ==
    [][ \A agent \in Agents :
          AcquireCompletes(agent) =>
            LET resource == AcquiredResource(agent)
                before == IF heat_map.cells[resource] = None THEN 0
                          ELSE decay_cell(heat_map.decay_per_second,
                                          heat_map.cells[resource], tnow).value
                bumped == Min(before + heat_map.increment, heat_map.max_value)
            IN  /\ heat_map'.cells[resource]
                      = [value |-> bumped, updated_at |-> tnow]
                /\ heat_summary'.hottest_score >= bumped
                /\ heat_summary'.tracked >= 1 ]_vars

\* The deferred entries of a resource's queue whose deadline has passed.
PassedDeadline(resource) ==
    {i \in DOMAIN tqueues[resource] :
        /\ tqueues[resource][i].deferred_until # Nothing
        /\ tqueues[resource][i].deferred_until[1] <= tnow}

\* Entry i comes first in priority order among the entries of the queue
\* that may be promoted now.
FirstInOrder(resource, i) ==
    LET queue == tqueues[resource]
        mayGo(j) == \/ queue[j].deferred_until = Nothing
                    \/ queue[j].deferred_until[1] <= tnow
    IN  \A j \in DOMAIN queue \ {i} :
            mayGo(j) => \/ queue[j].priority < queue[i].priority
                        \/ /\ queue[j].priority = queue[i].priority
                           /\ queue[j].enqueued_at >= queue[i].enqueued_at

\* The next release promotes a deferred entry whose deadline has passed
\* when it is the only first one in priority order.
ReleasePromotesReady ==
    \A agent \in Agents, resource \in Resources :
        ( /\ release_lease(agent, resource)
          /\ leases[resource] # None
          /\ leases[resource].holder_id = agent ) =>
          \A i \in PassedDeadline(resource) :
              ( /\ FirstInOrder(resource, i)
                /\ \A j \in DOMAIN tqueues[resource] \ {i} :
                      ~FirstInOrder(resource, j) ) =>
                /\ leases'[resource] # None
                /\ leases'[resource].holder_id = tqueues[resource][i].agent_id
                /\ \A k \in DOMAIN tqueues'[resource] :
                      tqueues'[resource][k].id # tqueues[resource][i].id

\* An acquisition that finds no holder does not grant the lease to a
\* newcomer while an entry whose deadline has passed waits.
NewcomerWaits ==
    \A agent \in Agents, resource \in Resources, priority \in Priorities :
        ( /\ acquire_lease(agent, resource, priority)
          /\ leases[resource] = None
          /\ \E i \in PassedDeadline(resource) :
                tqueues[resource][i].agent_id # agent ) =>
          ~( /\ leases'[resource] # None
             /\ leases'[resource].holder_id = agent )

\* C32: a deferred queue entry whose deadline has passed becomes eligible at
\* the next release or acquisition touching its resource: the next release
\* promotes it if it is first in priority order, and an acquisition arriving
\* while the resource has no holder does not grant the lease to the newcomer
\* ahead of that waiting entry.
C32_DeferredBecomesEligible ==
    [][ ReleasePromotesReady /\ NewcomerWaits ]_vars

Holds(agent, resource) ==
    leases[resource] # None /\ leases[resource].holder_id = agent
Waits(agent, resource) ==
    \E i \in DOMAIN tqueues[resource] : tqueues[resource][i].agent_id = agent

\* The run has used up the calls it is followed for.
CallsUsedUp == tcall.n >= CallLimit

\* C33: no waiter is stranded: if every lease holder eventually releases its
\* lease (the fairness of the specification), every request that was
\* answered Queued or Deferred is eventually promoted to holder, without any
\* further acquire_lease call being needed for that resource.
C33_NoWaiterStranded ==
    \A agent \in Agents, resource \in Resources :
        Waits(agent, resource) ~> (Holds(agent, resource) \/ CallsUsedUp)

\* The dispatcher decides on the message in its hands and the sender's
\* bucket, refilled, holds fewer tokens than the message costs.
ShortOfTokens ==
    /\ dpc = "decide"
    /\ dpc' # dpc
    /\ refill(BucketOf(hand.sender)).tokens < token_cost(hand.effective_priority)

AgingPromotes == dpc = "aging" /\ dpc' = "aging_push"

\* The effective tier and the boost counter of a held message change in no
\* step other than a promotion by aging.
BoostsKept ==
    \A m \in HeldMessages :
        \A n \in { x \in ({hand'} \ {None}) \cup
                         UNION { {queues'[p][i] : i \in DOMAIN queues'[p]} :
                                 p \in Priorities } : x.id = m.id } :
            \/ n.aging_boosts = m.aging_boosts /\ n.effective_priority = m.effective_priority
            \/ AgingPromotes /\ n = hand'

\* C35: the boost counter of every message, queued, in hand or delivered,
\* is at most max_aging_boosts; a promotion by aging takes a message whose
\* counter is below max_aging_boosts and raises the counter by exactly one,
\* and nothing else changes the counter or the effective tier; with
\* max_aging_boosts = 0 every message keeps its declared tier.
C35_BoostsBounded ==
    /\ [](\A m \in HeldMessages : m.aging_boosts <= rcfg.max_aging_boosts)
    /\ [](rcfg.max_aging_boosts = 0 =>
            \A m \in HeldMessages : /\ m.aging_boosts = 0
                                    /\ m.effective_priority = m.priority)
    /\ [][ /\ BoostsKept
           /\ AgingPromotes =>
                \E i \in DOMAIN queues[apri] :
                    /\ queues[apri][i].aging_boosts < rcfg.max_aging_boosts
                    /\ hand'.id = queues[apri][i].id
                    /\ hand'.aging_boosts = queues[apri][i].aging_boosts + 1 ]_vars

\* One aging pass promoted a message out of tier 0 and met it again in tier
\* 1, where it promoted it a second time: the message now waits in tier 2
\* with its counter at the maximum, old enough for a further boost, while
\* the same pass scans tier 2.
C35_Witness ==
    /\ dpc = "aging"
    /\ apri = 2
    /\ rcfg.max_aging_boosts = 2
    /\ \E i \in DOMAIN queues[2] :
           /\ queues[2][i].priority = 0
           /\ queues[2][i].aging_boosts = 2
           /\ queues[2][i].age >= rcfg.aging_threshold
           /\ i > aidx

\* The entries of a queue stand by descending tier, then by ascending
\* enqueue time.
QueueSorted(entries) ==
    \A i, j \in DOMAIN entries :
        i < j => \/ entries[i].priority > entries[j].priority
                 \/ /\ entries[i].priority = entries[j].priority
                    /\ entries[i].enqueued_at <= entries[j].enqueued_at

QueueNumbered(entries) ==
    \A i \in DOMAIN entries : entries[i].queue_position = i

\* C36: after every queue mutation each resource's queue is sorted by
\* descending tier then ascending enqueue time, and the entry at 1-based
\* position i has queue_position = i.
C36_QueueSortedAndNumbered ==
    \A resource \in Resources :
        /\ QueueSorted(tqueues[resource])
        /\ QueueNumbered(tqueues[resource])

\* The order alone, which a removal keeps.
C36_QueueSorted ==
    \A resource \in Resources : QueueSorted(tqueues[resource])

\* C37: for every active lease, expires_at >= granted_at and expires_at -
\* granted_at <= max_lease_duration, whether the lease was created by grant
\* or promotion or rewritten by override or transfer.
C37_LeaseWithinMaxDuration ==
    \A resource \in Resources :
        leases[resource] # None =>
            /\ leases[resource].expires_at >= leases[resource].granted_at
            /\ leases[resource].expires_at - leases[resource].granted_at
                 <= tpolicy.max_lease_duration

\* The part that holds of every lease: it does not expire before it was
\* granted, and it lasts at most the longer of the two durations.
C37_LeaseNotBackwards ==
    \A resource \in Resources :
        leases[resource] # None =>
            /\ leases[resource].expires_at >= leases[resource].granted_at
            /\ leases[resource].expires_at - leases[resource].granted_at
                 <= Max(tpolicy.default_lease_duration, tpolicy.max_lease_duration)

\* An envelope with one of its fields changed.
FieldChanges(env) ==
    { [env EXCEPT !.sequence = @ + 1],
      [env EXCEPT !.logical_clock.counter = @ + 1],
      [env EXCEPT !.logical_clock.last_wall = @ + 1],
      [env EXCEPT !.payload_digest = H(<<>>, "forged")],
      [env EXCEPT !.hash_chain = Genesis] }
      \cup { [env EXCEPT !.event = e] : e \in LedgerEvents \ {env.event} }

\* The log with the envelope at one place changed in one field.
ChangedLogs(entries) ==
    UNION { { [entries EXCEPT ![i] = changed] :
                changed \in FieldChanges(entries[i]) } : i \in DOMAIN entries }

\* The log with two envelopes exchanged.
ReorderedLogs(entries) ==
    { [k \in DOMAIN entries |->
         IF k = i THEN entries[j] ELSE IF k = j THEN entries[i] ELSE entries[k]] :
        i \in DOMAIN entries, j \in DOMAIN entries } \ {entries}

RECURSIVE Keep(_, _)
Keep(entries, kept) ==
    IF entries = <<>> THEN <<>>
    ELSE Keep(SubSeq(entries, 1, Len(entries) - 1), kept)
           \o (IF Len(entries) \in kept THEN <<entries[Len(entries)]>> ELSE <<>>)

\* The log with the envelopes at the places `removed` taken out.
Without(entries, removed) == Keep(entries, (DOMAIN entries) \ removed)

Removals(entries) == (SUBSET (DOMAIN entries)) \ {{}}

\* The places from some envelope to the end of the log.
IsTail(entries, removed) ==
    \E first \in DOMAIN entries : removed = first .. Len(entries)

\* C38: verify_epoch returns false for every epoch obtained from a valid
\* one by changing a field of an envelope, reordering envelopes, or
\* removing one or more envelopes anywhere, the end included.
C38_TamperEvident ==
    LET entries == read_epoch(lfiles)
    IN  VerifyFrom(entries, Genesis) =>
          /\ \A log \in ChangedLogs(entries) \cup ReorderedLogs(entries) :
                 ~VerifyFrom(log, Genesis)
          /\ \A removed \in Removals(entries) :
                 ~VerifyFrom(Without(entries, removed), Genesis)

\* What the chain does detect: every change of a field, every reordering,
\* and every removal that is not the removal of the end of the log; the
\* log cut short at any place still verifies.
C38_TamperEvidentButForTruncation ==
    LET entries == read_epoch(lfiles)
    IN  VerifyFrom(entries, Genesis) =>
          /\ \A log \in ChangedLogs(entries) \cup ReorderedLogs(entries) :
                 ~VerifyFrom(log, Genesis)
          /\ \A removed \in Removals(entries) :
                 VerifyFrom(Without(entries, removed), Genesis)
                   <=> IsTail(entries, removed)

\* A valid log of three envelopes or more.
C38_LongValidLog ==
    LET entries == read_epoch(lfiles)
    IN  Len(entries) >= 3 /\ VerifyFrom(entries, Genesis)

\* The metrics snapshot of a replay outcome against the outcome's own
\* router and lease state; a tier without a stored depth counts as empty.
MetricsAgree(outcome) ==
    LET metrics == outcome.metrics[1]
    IN  /\ outcome.metrics # Nothing
        /\ metrics.router.last_dispatched_priority = outcome.router.last_priority
        /\ priority_vec_from_map(metrics.router.queue_depths)
             = priority_vec_from_map(to_snapshot(outcome.router).queue_depths)
        /\ metrics.leases = to_summary(outcome.leases)

\* C39: in every replay outcome the metrics snapshot agrees with the
\* outcome's own router and lease state (same last dispatched priority and
\* queue depths, same number of active leases, same deferral, override and
\* escalation counts), including when the log contains events after its
\* last checkpoint.
C39_MetricsMatchState == MetricsAgree(replay_epoch(lfiles))

\* The agreement for the logs that hold no checkpoint, where replay_epoch
\* builds the snapshot from the state it ends with.
C39_MetricsMatchWithoutCheckpoint ==
    (\A i \in DOMAIN read_epoch(lfiles) :
         read_epoch(lfiles)[i].event.type # "Checkpoint")
      => MetricsAgree(replay_epoch(lfiles))

\* The ids of the messages in tier p.
IdsIn(qs, p) == { qs[p][i].id : i \in DOMAIN qs[p] }

\* A message leaves a tier queue in this step.
MessageRemoved == \E p \in Priorities : ~(IdsIn(queues, p) \subseteq IdsIn(queues', p))

\* C40: for any number of concurrent route_message calls on one router,
\* exactly one dispatcher task is started: never more than one, one as
\* soon as a call has passed ensure_dispatcher_started, and only under the
\* dispatcher mutex; and a message leaves a tier queue only into the hand
\* of that task, never in a step of a caller.
C40_SingleDispatcher ==
    /\ [](spawned <= 1)
    /\ []((spawned = 1) <=> started)
    /\ [](\A c \in RouteCallers : rcaller[c] = "push" => spawned = 1)
    /\ [](nextMsg > 0 => spawned = 1)
    /\ [][ /\ spawned' # spawned =>
                /\ dispatcher_lock \in RouteCallers
                /\ rcaller[dispatcher_lock] = "spawn"
           /\ MessageRemoved =>
                /\ spawned = 1
                /\ rcaller' = rcaller
                /\ dpc \in {"aging", "scan"}
                /\ hand = None
                /\ hand' # None
                /\ \E p \in Priorities :
                       IdsIn(queues, p) \ IdsIn(queues', p) = {hand'.id} ]_vars

\* Two calls are inside route_message at once, both past
\* ensure_dispatcher_started and neither with its message pushed yet: one
\* of them spawned the task, the other found the handle stored.
C40_Witness ==
    /\ spawned = 1
    /\ nextMsg = 0
    /\ \E c1, c2 \in RouteCallers :
           /\ c1 # c2
           /\ rcaller[c1] = "push"
           /\ rcaller[c2] = "push"
====
